---- MODULE Spec2Model ----
(***************************************************************************)
(* Model of the multi-node test cluster orchestrator, pytest/lib/cluster.py *)
(*                                                                         *)
(*   SpecCluster  start_cluster: boot node, thread fan-out, join, assembly  *)
(*   SpecConfig   apply_config_changes on one node's config.json            *)
(*   SpecGenesis  apply_genesis_changes on one node's genesis.json          *)
(*   SpecNode     one LocalNode handle: start, kill, get_status, cleanup    *)
(*   SpecKeys     reset_validator_key / reset_node_key of a handle          *)
(*   SpecRemote   GCloudNode creation, the remote registry and the exit hook*)
(*   SpecTopology init_cluster: the localnet subprocess and what follows    *)
(*   SpecProvision start_cluster: the node directories, their files, handles*)
(*   SpecRetry    nretry against a clock                                    *)
(*   SpecBootArg  make_boot_nodes_arg on every kind of argument             *)
(*   SpecNodeConfig change_config and the cold storage synthesis            *)
(*   SpecQuery    the query operations of a handle and json_rpc             *)
(*   SpecProxy    start_cluster with a proxy, then kills and restarts       *)
(*   SpecLoadConfig load_config and the module-level default                *)
(*   SpecStatus   get_status on a LocalNode, a GCloudNode and an RpcNode    *)
(*   SpecSpinUp   spin_up_node on a local configuration: ports, blacklist   *)
(*   SpecEnv      run_cmd: the environment of the spawned process           *)
(*                                                                         *)
(* Each specification drives its own group of variables and leaves the      *)
(* other groups at their idle values.                                       *)
(***************************************************************************)
EXTENDS Integers, Sequences, FiniteSets, TLC

VARIABLES
    \* ---- start_cluster ----
    config_local,   \* config['local']
    node_dirs,      \* the node directories, in ordinal order
    mainPc,         \* position of the thread that called start_cluster
    spawnIdx,       \* i of the loop at cluster.py:1195
    joinIdx,        \* index of the loop at cluster.py:1201
    tpc,            \* tpc[i]: position of the run of spin_up_node_and_push(i, ..)
    boot_arg,       \* boot_arg[i]: the boot_node argument given to that run
    process,        \* process[i]: the subprocess of node i, "none" or "running"
    cmdline,        \* cmdline[i]: what make_boot_nodes_arg added to node i's command
    startOutcome,   \* startOutcome[i]: how node.start of node i ended
    ret,            \* the shared list ret of (i, node) pairs, in append order
    nodes,          \* the list start_cluster returns
    \* ---- apply_config_changes ----
    cfgDisk,        \* content of config.json
    cfgOverrides,   \* client_config_change, in the dict's iteration order
    cfgHist,        \* content of config.json when each call began, oldest first
    cfgErrs,        \* outcome of each call so far, oldest first
    \* ---- apply_genesis_changes ----
    genDisk,        \* content of genesis.json
    genChanges,     \* genesis_config_changes
    genHist,        \* content of genesis.json when each call began, oldest first
    genErrs,        \* outcome of each call so far, oldest first
    \* ---- one LocalNode handle ----
    local_node,     \* the attributes of the handle and the state of its subprocess
    fs,             \* the directories under ~/.near, each with what it holds
    interp,         \* "running", or "exited" once the atexit hooks have run
    last,           \* the latest call on the handle: arguments, start state, outcome
    \* ---- GCloudNode handles, the remote registry and the exit hook ----
    gpc,            \* gpc[m]: position of the caller of spin_up_node for machine m
    gnode,          \* gnode[m]: the machine, the node directory and its archive
    remote_nodes_lock,  \* 0 when free, else the caller that holds it
    cleanup_remote_nodes_atexit_registered,
    atexit_registered,  \* how many times atexit_cleanup_remote was registered
    remote_nodes,   \* the registry, in append order
    ginterp,        \* "running", or "exited" once the exit hooks have run
    glast,          \* the latest cleanup call or run of the exit hook
    \* ---- key rotation ----
    knode,          \* a handle: its kind, its keys in memory, whether its node_dir is there
    kdisk,          \* validator_key.json and node_key.json in the node directory
    kremote,        \* validator_key.json on the machine of a GCloudNode
    klast,          \* the latest key call: the key given, the key before, the outcome
    \* ---- init_cluster ----
    test0_exists,   \* whether ~/.near/test0 is there when start_cluster is called
    requested,      \* num_nodes + num_observers
    extra_state_dumper,
    topoPc,         \* position in start_cluster / init_cluster
    returncode,     \* process.returncode of the localnet subprocess
    listed,         \* how many lines of its stderr hold '/test'
    patchIdx,       \* i of the loop at cluster.py:995
    patched,        \* patched[i]: the files of the i-th directory written so far
    returned,       \* how many node directories init_cluster returned, -1 before
    startedNodes,   \* how many nodes start_cluster has started
    topoErr,        \* what init_cluster raised
    \* ---- start_cluster: directories, files and handles ----
    pvArgs,         \* the arguments of the call of start_cluster
    pvTest0,        \* whether ~/.near/test0 was there when start_cluster was called
    pvPc,           \* position in start_cluster / init_cluster
    pvDisk,         \* ~/.near: the directories there, each with its two documents
    pvDirs,         \* node_dirs
    pvIdx,          \* i of the loops at cluster.py:997 and 1006, then the next ordinal
    pvErr,          \* what start_cluster raised
    pvHandles,      \* the handles spin_up_node has returned, by ordinal
    \* ---- nretry ----
    rtPc,           \* position in nretry
    rtTimeout,      \* timeout
    rtElapsed,      \* time.time() - started
    rtCalls,        \* how many times fn was invoked
    rtSleeps,       \* how many times time.sleep was called
    rtFailedAt,     \* time.time() - started at the test after the latest failure
    \* ---- make_boot_nodes_arg ----
    baCall,         \* the latest call: its argument and what it returned
    \* ---- change_config and configure_cold_storage_for_archival_node ----
    ncKind,         \* the class of the handle
    ncDisk,         \* content of config.json in the node directory
    ncLast,         \* the latest call: the file before it, and its outcome
    \* ---- query operations ----
    qCall,          \* the latest query: the operation, the reply, the outcome
    \* ---- start_cluster with a proxy, and restarts of its nodes ----
    pxHandler,      \* whether start_cluster was given a message_handler
    pxDirs,         \* len(node_dirs)
    pxMain,         \* position of the thread that called start_cluster
    pxSpawnIdx,     \* i of the loop at cluster.py:1195
    pxJoinIdx,      \* how many handles the loop at cluster.py:1201 has joined, plus one
    pxProxyIdx,     \* how many nodes the loop at cluster.py:1205 has gone through
    pxT,            \* pxT[i]: position of the run of spin_up_node_and_push(i, ..)
    pxH,            \* pxH[i]: the LocalNode handle of ordinal i
    pxRet,          \* ret, as the ordinals appended
    pxLog,          \* the proxies started and the processes spawned, in order
    pxRestarts,     \* how many times a test has restarted a node
    \* ---- load_config ----
    lcDefault,      \* the dict the module-level name DEFAULT_CONFIG is bound to
    lcLast,         \* the latest call: the variable's value, what it returned or raised
    \* ---- the status query on the three classes of handle ----
    stKind,         \* the class of the handle
    stH,            \* the handle
    stLast,         \* the latest call: what it was given, how it ended
    \* ---- spin_up_node on a local configuration ----
    suNodes,        \* suNodes[i]: the handle made for ordinal i, and what it wrote
    \* ---- run_cmd and the environment of the child ----
    evInherited,    \* os.environ
    evLast          \* the latest call of run_cmd: extra_env and the child's environment

clusterVars == <<config_local, node_dirs, mainPc, spawnIdx, joinIdx, tpc, boot_arg,
                 process, cmdline, startOutcome, ret, nodes>>
cfgVars == <<cfgDisk, cfgOverrides, cfgHist, cfgErrs>>
genVars == <<genDisk, genChanges, genHist, genErrs>>
nodeVars == <<local_node, fs, interp, last>>
remoteVars == <<gpc, gnode, remote_nodes_lock, cleanup_remote_nodes_atexit_registered,
                atexit_registered, remote_nodes, ginterp, glast>>
keyVars == <<knode, kdisk, kremote, klast>>
topoVars == <<test0_exists, requested, extra_state_dumper, topoPc, returncode, listed,
              patchIdx, patched, returned, startedNodes, topoErr>>
provVars == <<pvArgs, pvTest0, pvPc, pvDisk, pvDirs, pvIdx, pvErr, pvHandles>>
retryVars == <<rtPc, rtTimeout, rtElapsed, rtCalls, rtSleeps, rtFailedAt>>
ncVars == <<ncKind, ncDisk, ncLast>>
pxVars == <<pxHandler, pxDirs, pxMain, pxSpawnIdx, pxJoinIdx, pxProxyIdx, pxT, pxH, pxRet,
            pxLog, pxRestarts>>
lcVars == <<lcDefault, lcLast>>
stVars == <<stKind, stH, stLast>>
evVars == <<evInherited, evLast>>
coreVars == <<provVars, retryVars, baCall, ncVars, qCall>>
lateVars == <<pxVars, lcVars, stVars, suNodes, evVars>>
utilVars == <<coreVars, lateVars>>
handleVars == <<nodeVars, remoteVars, keyVars, topoVars>>
lifecycleVars == <<handleVars, utilVars>>
startupVars == <<clusterVars, cfgVars, genVars>>
nodeFrame == <<startupVars, remoteVars, keyVars, topoVars, utilVars>>
remoteFrame == <<startupVars, nodeVars, keyVars, topoVars, utilVars>>
keyFrame == <<startupVars, nodeVars, remoteVars, topoVars, utilVars>>
topoFrame == <<startupVars, nodeVars, remoteVars, keyVars, utilVars>>
provFrame == <<startupVars, handleVars, retryVars, baCall, ncVars, qCall, lateVars>>
retryFrame == <<startupVars, handleVars, provVars, baCall, ncVars, qCall, lateVars>>
baFrame == <<startupVars, handleVars, provVars, retryVars, ncVars, qCall, lateVars>>
ncFrame == <<startupVars, handleVars, provVars, retryVars, baCall, qCall, lateVars>>
qFrame == <<startupVars, handleVars, provVars, retryVars, baCall, ncVars, lateVars>>
pxFrame == <<startupVars, handleVars, coreVars, lcVars, stVars, suNodes, evVars>>
lcFrame == <<startupVars, handleVars, coreVars, pxVars, stVars, suNodes, evVars>>
stFrame == <<startupVars, handleVars, coreVars, pxVars, lcVars, suNodes, evVars>>
suFrame == <<startupVars, handleVars, coreVars, pxVars, lcVars, stVars, evVars>>
evFrame == <<startupVars, handleVars, coreVars, pxVars, lcVars, stVars, suNodes>>
vars == <<clusterVars, cfgVars, genVars, lifecycleVars>>

(***************************************************************************)
(* Bounds                                                                  *)
(***************************************************************************)
MaxNodes == 3

(***************************************************************************)
(* JSON values: a scalar, an object (a function on its keys) or an array.   *)
(***************************************************************************)
Scalar(n) == [t |-> "s", v |-> n]
Obj(f) == [t |-> "o", f |-> f]
Arr(s) == [t |-> "a", e |-> s]
IsObj(x) == x.t = "o"
IsArr(x) == x.t = "a"
EmptyFields == [k \in {} |-> Scalar(0)]

Range(s) == {s[j] : j \in DOMAIN s}

(***************************************************************************)
(* Node handles and the boot-nodes argument                                 *)
(***************************************************************************)
P2pBasePort == 24567
RpcBasePort == 3030
PortOffset == 10

\* node_key.json of the i-th node directory: pk is "ed25519:<hash>", kept as its
\* two ':'-separated fields.
NodeKeyPk(dir) == <<"ed25519", <<"hash", dir>>>>

\* Variant: ten ports apart from one ordinal to the next
LocalNodeTenApart(ordinal, node_dir) ==
    [kind |-> "Local", ordinal |-> ordinal, node_dir |-> node_dir,
     port |-> P2pBasePort + PortOffset * (ordinal + 1),
     rpc_port |-> RpcBasePort + PortOffset * (ordinal + 1),
     node_key_pk |-> NodeKeyPk(node_dir)]

\* LocalNode(24567 + 10 + ordinal, 3030 + 10 + ordinal, ..., node_dir, ordinal=ordinal)
LocalNode(ordinal, node_dir) ==
    [kind |-> "Local", ordinal |-> ordinal, node_dir |-> node_dir,
     port |-> P2pBasePort + PortOffset + ordinal,
     rpc_port |-> RpcBasePort + PortOffset + ordinal,
     node_key_pk |-> NodeKeyPk(node_dir)]

\* GCloudNode(instance_name, zone, node_dir, binary): fixed ports, and no ip
\* attribute (the assignment is commented out).
GCloudNode(ordinal, node_dir) ==
    [kind |-> "GCloud", ordinal |-> ordinal, node_dir |-> node_dir,
     port |-> P2pBasePort, rpc_port |-> RpcBasePort,
     node_key_pk |-> NodeKeyPk(node_dir)]

\* BaseNode.addr_with_pk: '{}@{}:{}'.format(pk_hash, host, port), kept as its fields
addr_with_pk(node) ==
    [pk_hash |-> node.node_key_pk[2], host |-> "127.0.0.1", port |-> node.port]

\* make_boot_nodes_arg: boot_node is None (<<>> here), one handle (a one-element
\* sequence here: the code wraps it in a tuple) or an iterable of handles.  The
\* comma-joined value is kept as the sequence of its entries.
make_boot_nodes_arg(boot_node) ==
    IF boot_node = <<>>
    THEN <<>>
    ELSE <<"--boot-nodes", [j \in 1..Len(boot_node) |-> addr_with_pk(boot_node[j])]>>

\* sorted(ret) on (i, node) pairs with distinct i, then the nodes alone
sorted(pairs) ==
    [j \in 1..Len(pairs) |->
        CHOOSE p \in Range(pairs) :
            Cardinality({q \in Range(pairs) : q[1] < p[1]}) = j - 1]

SortedNodes(pairs) == [j \in 1..Len(pairs) |-> sorted(pairs)[j][2]]

(***************************************************************************)
(* start_cluster                                                           *)
(***************************************************************************)
NumNodes == Len(node_dirs)
Ordinals == 0..(NumNodes - 1)
AllDirs == [j \in 1..MaxNodes |-> <<"test", j - 1>>]

\* The handle spin_up_node builds for ordinal i
NodeOf(i) ==
    IF config_local THEN LocalNode(i, node_dirs[i + 1]) ELSE GCloudNode(i, node_dirs[i + 1])

ClusterInit ==
    /\ config_local \in BOOLEAN
    /\ node_dirs \in {SubSeq(AllDirs, 1, n) : n \in 1..MaxNodes}
    /\ mainPc = "boot"
    /\ spawnIdx = 1
    /\ joinIdx = 1
    /\ tpc = [i \in 0..(MaxNodes - 1) |-> IF i = 0 THEN "init" ELSE "unborn"]
    /\ boot_arg = [i \in 0..(MaxNodes - 1) |-> <<>>]
    /\ process = [i \in 0..(MaxNodes - 1) |-> "none"]
    /\ cmdline = [i \in 0..(MaxNodes - 1) |-> <<>>]
    /\ startOutcome = [i \in 0..(MaxNodes - 1) |-> "none"]
    /\ ret = <<>>
    /\ nodes = <<>>

ClusterIdle ==
    /\ config_local = TRUE
    /\ node_dirs = <<>>
    /\ mainPc = "idle"
    /\ spawnIdx = 1
    /\ joinIdx = 1
    /\ tpc = [i \in 0..(MaxNodes - 1) |-> "unborn"]
    /\ boot_arg = [i \in 0..(MaxNodes - 1) |-> <<>>]
    /\ process = [i \in 0..(MaxNodes - 1) |-> "none"]
    /\ cmdline = [i \in 0..(MaxNodes - 1) |-> <<>>]
    /\ startOutcome = [i \in 0..(MaxNodes - 1) |-> "none"]
    /\ ret = <<>>
    /\ nodes = <<>>

\* An exception leaving spin_up_node_and_push(i, ..): in the calling thread for
\* i = 0 (start_cluster raises), in thread i otherwise (the thread ends).
Raise(i) ==
    /\ tpc' = [tpc EXCEPT ![i] = "raised"]
    /\ mainPc' = IF i = 0 THEN "raised" ELSE mainPc

\* spin_up_node up to the construction of the handle
Construct(i) ==
    /\ tpc[i] = "init"
    /\ tpc' = [tpc EXCEPT ![i] = "start"]
    /\ UNCHANGED <<config_local, node_dirs, mainPc, spawnIdx, joinIdx, boot_arg,
                   process, cmdline, startOutcome, ret, nodes>>
    /\ UNCHANGED <<cfgVars, genVars, lifecycleVars>>

\* LocalNode.start up to run_cmd: the command line is built and the process spawned
LocalStartSpawn(i) ==
    /\ config_local
    /\ tpc[i] = "start"
    /\ cmdline' = [cmdline EXCEPT ![i] = make_boot_nodes_arg(boot_arg[i])]
    /\ process' = [process EXCEPT ![i] = "running"]
    /\ tpc' = [tpc EXCEPT ![i] = "wait"]
    /\ UNCHANGED <<config_local, node_dirs, mainPc, spawnIdx, joinIdx, boot_arg,
                   startOutcome, ret, nodes>>
    /\ UNCHANGED <<cfgVars, genVars, lifecycleVars>>

\* LocalNode.start, wait_for_rpc(10) returns: the status RPC answered in time
LocalStartReady(i) ==
    /\ config_local
    /\ tpc[i] = "wait"
    /\ startOutcome' = [startOutcome EXCEPT ![i] = "ready"]
    /\ tpc' = [tpc EXCEPT ![i] = "push"]
    /\ UNCHANGED <<config_local, node_dirs, mainPc, spawnIdx, joinIdx, boot_arg,
                   process, cmdline, ret, nodes>>
    /\ UNCHANGED <<cfgVars, genVars, lifecycleVars>>

\* LocalNode.start, wait_for_rpc(10) raises after the budget: the except clause
\* logs, and start returns normally
LocalStartTimeout(i) ==
    /\ config_local
    /\ tpc[i] = "wait"
    /\ startOutcome' = [startOutcome EXCEPT ![i] = "timeout"]
    /\ tpc' = [tpc EXCEPT ![i] = "push"]
    /\ UNCHANGED <<config_local, node_dirs, mainPc, spawnIdx, joinIdx, boot_arg,
                   process, cmdline, ret, nodes>>
    /\ UNCHANGED <<cfgVars, genVars, lifecycleVars>>

\* The keyword arguments GCloudNode.start accepts, and those spin_up_node passes
GCloudStartKeywords == {"boot_node", "extra_env"}
SpinUpStartKeywords == {"boot_node", "skip_starting_proxy"}

\* The key GCloudNode.start adds to extra_env, as its characters
RUST_BACKTRACE == <<"R", "U", "S", "T", "_", "B", "A", "C", "K", "T", "R", "A", "C", "E">>

\* for (k, v) in extra_env iterates the dict's keys: each key string is unpacked
\* into (k, v), which takes a string of exactly two characters
UnpacksAsPair(key) == Len(key) = 2

\* How node.start(boot_node=.., skip_starting_proxy=..) ends on a GCloudNode:
\* the call itself fails on the keyword the method does not accept; past that,
\* the unpack of the dict's keys at cluster.py:800 fails; past that,
\* wait_for_rpc(timeout=30) is not guarded, so a node that is not ready raises.
GCloudStartOutcome(keywords, extra_env, rpcReady) ==
    IF ~(keywords \subseteq GCloudStartKeywords) THEN "TypeError"
    ELSE IF \E k \in extra_env \cup {RUST_BACKTRACE} : ~UnpacksAsPair(k) THEN "ValueError"
    ELSE IF rpcReady THEN "ready" ELSE "raised"

\* GCloudNode.start as spin_up_node calls it
GCloudStart(i) ==
    /\ ~config_local
    /\ tpc[i] = "start"
    /\ \E rpcReady \in BOOLEAN :
          LET out == GCloudStartOutcome(SpinUpStartKeywords, {}, rpcReady) IN
          /\ startOutcome' = [startOutcome EXCEPT ![i] = out]
          /\ IF out = "ready"
             THEN /\ tpc' = [tpc EXCEPT ![i] = "push"]
                  /\ UNCHANGED mainPc
             ELSE Raise(i)
    /\ UNCHANGED <<config_local, node_dirs, spawnIdx, joinIdx, boot_arg,
                   process, cmdline, ret, nodes>>
    /\ UNCHANGED <<cfgVars, genVars, lifecycleVars>>

\* The end of spin_up_node_and_push: ret.append((i, node)); for i = 0 the caller
\* goes on to the fan-out loop
Push(i) ==
    /\ tpc[i] = "push"
    /\ ret' = Append(ret, <<i, NodeOf(i)>>)
    /\ tpc' = [tpc EXCEPT ![i] = "done"]
    /\ mainPc' = IF i = 0 THEN "fanout" ELSE mainPc
    /\ UNCHANGED <<config_local, node_dirs, spawnIdx, joinIdx, boot_arg,
                   process, cmdline, startOutcome, nodes>>
    /\ UNCHANGED <<cfgVars, genVars, lifecycleVars>>

\* Variant: the fan-out begins once the boot node's process is spawned, without
\* waiting for its start to return
BootSpawnedOnly == process[0] = "running"

\* boot_node = spin_up_node_and_push(0, None) has returned
BootReturned == mainPc = "fanout"

\* Variant: every thread is pointed at the node of the ordinal before its own
ThreadBootNodeChained == <<NodeOf(spawnIdx - 1)>>

\* The boot_node every thread is given: the handle of ordinal 0
ThreadBootNode == <<NodeOf(0)>>

\* One iteration of the loop at cluster.py:1195: a thread for ordinal spawnIdx
SpawnThread ==
    /\ BootReturned
    /\ spawnIdx < NumNodes
    /\ tpc' = [tpc EXCEPT ![spawnIdx] = "init"]
    /\ boot_arg' = [boot_arg EXCEPT ![spawnIdx] = ThreadBootNode]
    /\ spawnIdx' = spawnIdx + 1
    /\ UNCHANGED <<config_local, node_dirs, mainPc, joinIdx,
                   process, cmdline, startOutcome, ret, nodes>>
    /\ UNCHANGED <<cfgVars, genVars, lifecycleVars>>

\* handle.join() returns once the thread has ended, by return or by exception
Joinable(i) == tpc[i] \in {"done", "raised"}

\* One iteration of the loop at cluster.py:1201
JoinThread ==
    /\ mainPc = "fanout"
    /\ spawnIdx = NumNodes
    /\ joinIdx < NumNodes
    /\ Joinable(joinIdx)
    /\ joinIdx' = joinIdx + 1
    /\ UNCHANGED <<config_local, node_dirs, mainPc, spawnIdx, tpc, boot_arg,
                   process, cmdline, startOutcome, ret, nodes>>
    /\ UNCHANGED <<cfgVars, genVars, lifecycleVars>>

\* Variant: the nodes in the order the runs appended them, without the sort
AssembledUnsorted == [j \in 1..Len(ret) |-> ret[j][2]]

\* nodes = [node for _, node in sorted(ret)]
AssembledNodes == SortedNodes(ret)

\* The list is assembled and returned
Return ==
    /\ mainPc = "fanout"
    /\ spawnIdx = NumNodes
    /\ joinIdx = NumNodes
    /\ nodes' = AssembledNodes
    /\ mainPc' = "done"
    /\ UNCHANGED <<config_local, node_dirs, spawnIdx, joinIdx, tpc, boot_arg,
                   process, cmdline, startOutcome, ret>>
    /\ UNCHANGED <<cfgVars, genVars, lifecycleVars>>

ClusterNext ==
    \/ \E i \in Ordinals : Construct(i)
    \/ \E i \in Ordinals : LocalStartSpawn(i)
    \/ \E i \in Ordinals : LocalStartReady(i)
    \/ \E i \in Ordinals : LocalStartTimeout(i)
    \/ \E i \in Ordinals : GCloudStart(i)
    \/ \E i \in Ordinals : Push(i)
    \/ SpawnThread
    \/ JoinThread
    \/ Return

(***************************************************************************)
(* Files: a file's content is the sequence of JSON documents written into   *)
(* it.  open(fname, 'w') truncates, so after a write the file holds one.    *)
(***************************************************************************)
\* with open(fname, 'w') as fd: json.dump(doc, fd, indent=2)
WriteJson(content, doc) == <<doc>>

\* json.load(fd): the one document of the file; anything else does not parse
JsonLoads(content) == Len(content) = 1
JsonLoad(content) == content[1]

(***************************************************************************)
(* apply_config_changes                                                    *)
(*                                                                         *)
(* An override key is kept as k.split('.'), the sequence of its segments;   *)
(* the keys of config.json hold no '.', so k in config_json means that k    *)
(* has one segment and that segment is a key of the document.               *)
(***************************************************************************)
MaxOverrides == 2
MaxCalls == 2

allowed_missing_configs ==
    { <<"archive">>,
      <<"consensus", "block_fetch_horizon">>,
      <<"consensus", "block_header_fetch_horizon">>,
      <<"consensus", "min_block_production_delay">>,
      <<"consensus", "max_block_production_delay">>,
      <<"consensus", "max_block_wait_delay">>,
      <<"consensus", "state_sync_external_timeout">>,
      <<"consensus", "state_sync_external_backoff">>,
      <<"consensus", "state_sync_p2p_timeout">>,
      <<"expected_shutdown">>,
      <<"log_summary_period">>,
      <<"max_gas_burnt_view">>,
      <<"rosetta_rpc">>,
      <<"save_trie_changes">>,
      <<"save_tx_outcomes">>,
      <<"split_storage">>,
      <<"state_sync">>,
      <<"state_sync_enabled">>,
      <<"store", "state_snapshot_config", "state_snapshot_type">>,
      <<"tracked_shard_schedule">>,
      <<"tracked_shards_config", "Schedule">>,
      <<"tracked_shards_config", "ShadowValidator">>,
      <<"cold_store">>,
      <<"store", "load_mem_tries_for_tracked_shards">> }

\* k in config_json
InConfig(k, config_json) == Len(k) = 1 /\ k[1] \in DOMAIN config_json

\* Variant: a dotted key is accepted when its first segment is in the document
KeyAcceptedByFirstSegment(k, config_json) ==
    k \in allowed_missing_configs \/ k[1] \in DOMAIN config_json

\* The negation of the test at cluster.py:1109
KeyAccepted(k, config_json) ==
    k \in allowed_missing_configs \/ InConfig(k, config_json)

\* d.update(v) on two dicts: v's fields laid over d's
DictUpdate(d, v) ==
    [x \in DOMAIN d \cup DOMAIN v |-> IF x \in DOMAIN v THEN v[x] ELSE d[x]]

\* d[key] = value
DictSet(d, key, value) ==
    [x \in DOMAIN d \cup {key} |-> IF x = key THEN value ELSE d[x]]

\* Variant: a missing segment is created as an empty dict
DescendCreating(current, part) ==
    IF part \notin DOMAIN current \/ ~IsObj(current[part])
    THEN [err |-> "none", dict |-> EmptyFields]
    ELSE [err |-> "none", dict |-> current[part].f]

\* Variant: a segment whose value is not a dict raises
DescendStrict(current, part) ==
    IF part \notin DOMAIN current \/ ~IsObj(current[part])
    THEN [err |-> "ValueError", dict |-> EmptyFields]
    ELSE [err |-> "none", dict |-> current[part].f]

\* cluster.py:1118-1124, one segment before the last: the dict the loop goes on
\* with, or the error it raises.  A missing segment raises; one whose value is
\* not a dict is replaced by {}.
Descend(current, part) ==
    IF part \notin DOMAIN current
    THEN [err |-> "ValueError", dict |-> EmptyFields]
    ELSE IF ~IsObj(current[part])
    THEN [err |-> "none", dict |-> EmptyFields]
    ELSE [err |-> "none", dict |-> current[part].f]

\* Variant: the final field is set in the dict the walk began with, whatever
\* the segments before it
SetDottedFlat(current, parts, v) ==
    [err |-> "none", dict |-> DictSet(current, parts[Len(parts)], v)]

\* cluster.py:1115-1125: the dict current after the assignment along parts
RECURSIVE SetDotted(_, _, _)
SetDotted(current, parts, v) ==
    IF Len(parts) = 1
    THEN [err |-> "none", dict |-> DictSet(current, parts[1], v)]
    ELSE LET down == Descend(current, Head(parts)) IN
         IF down.err # "none"
         THEN [err |-> down.err, dict |-> current]
         ELSE LET rest == SetDotted(down.dict, Tail(parts), v) IN
              IF rest.err # "none"
              THEN [err |-> rest.err, dict |-> current]
              ELSE [err |-> "none", dict |-> DictSet(current, Head(parts), Obj(rest.dict))]

\* cluster.py:1111-1112: config_json[k].update(v), which a value that is not a
\* dict does not have
UpdateInPlace(config_json, k, v) ==
    IF IsObj(config_json[k[1]])
    THEN [err |-> "none",
          dict |-> DictSet(config_json, k[1], Obj(DictUpdate(config_json[k[1]].f, v.f)))]
    ELSE [err |-> "AttributeError", dict |-> config_json]

\* One iteration of the loop at cluster.py:1108
ApplyOverride(config_json, k, v) ==
    IF ~KeyAccepted(k, config_json)
    THEN [err |-> "ValueError", dict |-> config_json]
    ELSE IF InConfig(k, config_json) /\ IsObj(v)
    THEN UpdateInPlace(config_json, k, v)
    ELSE SetDotted(config_json, k, v)

\* The loop at cluster.py:1108, which the first exception leaves
RECURSIVE ApplyOverrides(_, _)
ApplyOverrides(config_json, overrides) ==
    IF overrides = <<>>
    THEN [err |-> "none", dict |-> config_json]
    ELSE LET one == ApplyOverride(config_json, Head(overrides).k, Head(overrides).v) IN
         IF one.err # "none"
         THEN one
         ELSE ApplyOverrides(one.dict, Tail(overrides))

\* apply_config_changes on the file: [err, content], the file's content after
apply_config_changes(content, overrides) ==
    IF ~JsonLoads(content)
    THEN [err |-> "JSONDecodeError", content |-> content]
    ELSE LET r == ApplyOverrides(JsonLoad(content).f, overrides) IN
         IF r.err # "none"
         THEN [err |-> r.err, content |-> content]
         ELSE [err |-> "none", content |-> WriteJson(content, Obj(r.dict))]

\* ---- the documents and override maps the calls are tried on ----
S0 == Scalar(0)
S1 == Scalar(1)

ArchiveValues == {S0}
TrackedValues == {S0, Obj("Schedule" :> S0)}
StoreValues ==
    { S0,
      Obj("path" :> S0),
      Obj("path" :> S0 @@ "state_snapshot_config" :> S0),
      Obj("path" :> S0 @@ "state_snapshot_config" :> Obj("state_snapshot_type" :> S0)) }

\* A document with, for each of the three keys, no value or one of its values
Absent == [t |-> "absent"]
DocOf(a, tr, st) ==
    LET all == "archive" :> a @@ "tracked_shards_config" :> tr @@ "store" :> st
        keys == {x \in DOMAIN all : all[x] # Absent}
    IN  Obj([x \in keys |-> all[x]])

ConfigDocs ==
    { DocOf(a, tr, st) : a \in ArchiveValues \cup {Absent},
                         tr \in TrackedValues \cup {Absent},
                         st \in StoreValues \cup {Absent} }

OverrideKeys ==
    { <<"archive">>,
      <<"store">>,
      <<"tracked_shards_config">>,
      <<"tracked_shards_config", "Schedule">>,
      <<"store", "state_snapshot_config", "state_snapshot_type">>,
      <<"store", "path">>,
      <<"unknown_option">> }

OverrideValues ==
    { S1,
      Obj("path" :> S1),
      Obj("state_snapshot_config" :> Obj("compaction" :> S1)) }

OverrideEntries == [k : OverrideKeys, v : OverrideValues]

\* A dict has each key once
DistinctKeys(seq) == \A i, j \in DOMAIN seq : i # j => seq[i].k # seq[j].k

OverrideMaps ==
    UNION { {m \in [1..n -> OverrideEntries] : DistinctKeys(m)} : n \in 0..MaxOverrides }

ConfigInit ==
    /\ cfgDisk \in {<<d>> : d \in ConfigDocs}
    /\ cfgOverrides \in OverrideMaps
    /\ cfgHist = <<>>
    /\ cfgErrs = <<>>

ConfigIdle ==
    /\ cfgDisk = <<>>
    /\ cfgOverrides = <<>>
    /\ cfgHist = <<>>
    /\ cfgErrs = <<>>

\* A call of apply_config_changes(node_dir, cfgOverrides)
ApplyConfigChanges ==
    /\ Len(cfgErrs) < MaxCalls
    /\ LET r == apply_config_changes(cfgDisk, cfgOverrides) IN
       /\ cfgDisk' = r.content
       /\ cfgErrs' = Append(cfgErrs, r.err)
    /\ cfgHist' = Append(cfgHist, cfgDisk)
    /\ UNCHANGED cfgOverrides
    /\ UNCHANGED <<clusterVars, genVars, lifecycleVars>>

ConfigNext == ApplyConfigChanges

(***************************************************************************)
(* apply_genesis_changes                                                   *)
(*                                                                         *)
(* A change is the list [segment, ..., segment, value]; a segment is a      *)
(* string (a key of an object) or an integer (an index of an array).        *)
(***************************************************************************)
MaxChanges == 2

Key(s) == [k |-> "str", s |-> s]
Idx(n) == [k |-> "int", n |-> n]
IsKey(seg) == seg.k = "str"
IsIdx(seg) == seg.k = "int"

\* change[:-2], change[-2] and change[-1]
ChangeNav(change) == SubSeq(change, 1, Len(change) - 2)
ChangeKey(change) == change[Len(change) - 1]
ChangeValue(change) == change[Len(change)]

\* cur[s]: the value, or the exception (KeyError on a dict, IndexError or
\* TypeError on a list, TypeError on a number)
GetItem(cur, s) ==
    IF IsObj(cur)
    THEN IF IsKey(s) /\ s.s \in DOMAIN cur.f
         THEN [err |-> "none", val |-> cur.f[s.s]]
         ELSE [err |-> "KeyError", val |-> cur]
    ELSE IF IsArr(cur)
    THEN IF ~IsIdx(s) THEN [err |-> "TypeError", val |-> cur]
         ELSE IF s.n < Len(cur.e) THEN [err |-> "none", val |-> cur.e[s.n + 1]]
         ELSE [err |-> "IndexError", val |-> cur]
    ELSE [err |-> "TypeError", val |-> cur]

\* s in cur: on a dict, s is one of its keys; on a list, s equals one of its
\* elements; a number is not iterable
Contains(cur, s) ==
    IF IsObj(cur)
    THEN [err |-> "none", val |-> IsKey(s) /\ s.s \in DOMAIN cur.f]
    ELSE IF IsArr(cur)
    THEN [err |-> "none",
          val |-> IsIdx(s) /\ \E j \in DOMAIN cur.e : cur.e[j] = Scalar(s.n)]
    ELSE [err |-> "TypeError", val |-> FALSE]

\* cur[s] = value, reached only after the assert
SetItem(cur, s, value) ==
    IF IsObj(cur)
    THEN [err |-> "none", val |-> Obj(DictSet(cur.f, s.s, value))]
    ELSE IF s.n < Len(cur.e)
    THEN [err |-> "none", val |-> Arr([cur.e EXCEPT ![s.n + 1] = value])]
    ELSE [err |-> "IndexError", val |-> cur]

\* Variant: the assignment without the assert before it
SetWithoutAssert(cur, key, value) ==
    IF (IsObj(cur) /\ IsKey(key)) \/ (IsArr(cur) /\ IsIdx(key))
    THEN SetItem(cur, key, value)
    ELSE [err |-> "TypeError", val |-> cur]

\* cluster.py:1065-1066 on the container the navigation ended in
AssertAndSet(cur, key, value) ==
    LET has == Contains(cur, key) IN
    IF has.err # "none" THEN [err |-> has.err, val |-> cur]
    ELSE IF ~has.val THEN [err |-> "AssertionError", val |-> cur]
    ELSE SetItem(cur, key, value)

\* cluster.py:1062-1066 for one change: cur after the navigation along nav and
\* the assignment, rebuilt up to the container the navigation began in
RECURSIVE ApplyChangeAt(_, _, _, _)
ApplyChangeAt(cur, nav, key, value) ==
    IF nav = <<>>
    THEN AssertAndSet(cur, key, value)
    ELSE LET down == GetItem(cur, Head(nav)) IN
         IF down.err # "none" THEN [err |-> down.err, val |-> cur]
         ELSE LET rest == ApplyChangeAt(down.val, Tail(nav), key, value) IN
              IF rest.err # "none" THEN [err |-> rest.err, val |-> cur]
              ELSE SetItem(cur, Head(nav), rest.val)

\* The loop at cluster.py:1061, which the first exception leaves
RECURSIVE ApplyChanges(_, _)
ApplyChanges(genesis_config, changes) ==
    IF changes = <<>>
    THEN [err |-> "none", val |-> genesis_config]
    ELSE LET c == Head(changes)
             one == ApplyChangeAt(genesis_config, ChangeNav(c), ChangeKey(c), ChangeValue(c))
         IN  IF one.err # "none"
             THEN one
             ELSE ApplyChanges(one.val, Tail(changes))

\* apply_genesis_changes on the file: [err, content], the file's content after
apply_genesis_changes(content, changes) ==
    IF ~JsonLoads(content)
    THEN [err |-> "JSONDecodeError", content |-> content]
    ELSE LET r == ApplyChanges(JsonLoad(content), changes) IN
         IF r.err # "none"
         THEN [err |-> r.err, content |-> content]
         ELSE [err |-> "none", content |-> WriteJson(content, r.val)]

\* ---- the documents and change lists the calls are tried on ----
S2 == Scalar(2)
Validator == Obj("amount" :> S0)

EpochValues == {S0}
ValidatorsValues ==
    { S0,
      Arr(<<S0>>),
      Arr(<<Validator>>),
      Arr(<<Validator, Validator>>) }

GenesisDocOf(e, v) ==
    LET all == "epoch_length" :> e @@ "validators" :> v
        keys == {x \in DOMAIN all : all[x] # Absent}
    IN  Obj([x \in keys |-> all[x]])

GenesisDocs ==
    { GenesisDocOf(e, v) : e \in EpochValues \cup {Absent},
                           v \in ValidatorsValues \cup {Absent} }

ChangePaths ==
    { <<Key("epoch_length")>>,
      <<Key("validators")>>,
      <<Key("validators"), Idx(0)>>,
      <<Key("validators"), Idx(0), Key("amount")>>,
      <<Key("validators"), Idx(1), Key("amount")>>,
      <<Key("validators"), Idx(0), Key("stake")>>,
      <<Key("protocol_version")>> }

ChangeValues == {S1, S2, Arr(<<Validator, Validator>>)}

Changes == {Append(p, v) : p \in ChangePaths, v \in ChangeValues}

ChangeLists == UNION { [1..n -> Changes] : n \in 0..MaxChanges }

GenesisInit ==
    /\ genDisk \in {<<d>> : d \in GenesisDocs}
    /\ genChanges \in ChangeLists
    /\ genHist = <<>>
    /\ genErrs = <<>>

GenesisIdle ==
    /\ genDisk = <<>>
    /\ genChanges = <<>>
    /\ genHist = <<>>
    /\ genErrs = <<>>

\* A call of apply_genesis_changes(node_dir, genChanges)
ApplyGenesisChanges ==
    /\ Len(genErrs) < MaxCalls
    /\ LET r == apply_genesis_changes(genDisk, genChanges) IN
       /\ genDisk' = r.content
       /\ genErrs' = Append(genErrs, r.err)
    /\ genHist' = Append(genHist, genDisk)
    /\ UNCHANGED genChanges
    /\ UNCHANGED <<clusterVars, cfgVars, lifecycleVars>>

GenesisNext == ApplyGenesisChanges

(***************************************************************************)
(* Claims about start_cluster, under SpecCluster                            *)
(***************************************************************************)
NonBoot == Ordinals \ {0}

\* C1, as claimed: whenever a non-boot node has been started, node 0 has been
\* started and its status RPC has answered.
C1_AsClaimed ==
    \A i \in NonBoot :
        tpc[i] # "unborn" => process[0] = "running" /\ startOutcome[0] = "ready"

\* C1, amended: whenever a non-boot node's thread exists, node 0's process has
\* been spawned and node 0's start has returned, its readiness wait having ended
\* by an answer of the status RPC or by the end of the 10-second budget.
C1_BootStartReturnedFirst ==
    \A i \in NonBoot :
        tpc[i] # "unborn" =>
            /\ process[0] = "running"
            /\ startOutcome[0] \in {"ready", "timeout"}
            /\ tpc[0] = "done"

\* A non-boot node runs although node 0 never answered within its budget
C1_Witness ==
    \E i \in NonBoot : process[i] = "running" /\ startOutcome[0] = "timeout"

C3_BootPeerIsNodeZero ==
    \A i \in Ordinals :
        process[i] = "running" =>
            cmdline[i] =
                IF i = 0
                THEN <<>>
                ELSE <<"--boot-nodes",
                       <<[pk_hash |-> <<"hash", node_dirs[1]>>,
                          host |-> "127.0.0.1",
                          port |-> 24577]>>>>

\* The third node of a cluster has been started
C3_Witness == NumNodes >= 3 /\ process[2] = "running" /\ cmdline[2] # <<>>

\* C4, as claimed: no node's start raises, start_cluster does not raise, and
\* the list it returns has one handle per node directory.
C4_AsClaimed ==
    /\ \A i \in Ordinals : startOutcome[i] \in {"none", "ready", "timeout"}
    /\ mainPc # "raised"
    /\ mainPc = "done" => Len(nodes) = NumNodes

(***************************************************************************)
(* Claims about apply_config_changes, under SpecConfig                      *)
(***************************************************************************)
CfgCalled == cfgErrs # <<>>
CfgBefore == cfgHist[Len(cfgHist)]
CfgLastErr == cfgErrs[Len(cfgErrs)]
CfgBeforeDoc == CfgBefore[1].f
CfgAfterDoc == cfgDisk[1].f

\* k is neither a top-level key of the document nor in the allow-list
UnknownKey(k, doc) ==
    k \notin allowed_missing_configs /\ \A x \in DOMAIN doc : k # <<x>>

\* k is a dotted path of the allow-list
AcceptedDotted(k) == Len(k) >= 2 /\ k \in allowed_missing_configs

\* Every segment of path is there, each one a key of the object before it
RECURSIVE PathPresent(_, _)
PathPresent(doc, path) ==
    \/ path = <<>>
    \/ /\ Head(path) \in DOMAIN doc
       /\ \/ Len(path) = 1
          \/ IsObj(doc[Head(path)]) /\ PathPresent(doc[Head(path)].f, Tail(path))

\* The value at a path that is present
RECURSIVE ValueAt(_, _)
ValueAt(doc, path) ==
    IF Len(path) = 1 THEN doc[Head(path)] ELSE ValueAt(doc[Head(path)].f, Tail(path))

Prefix(k, n) == SubSeq(k, 1, n)
Intermediates(k) == 1..(Len(k) - 1)

\* Some segment before the last is absent from the document
MissingIntermediate(doc, k) == \E n \in Intermediates(k) : ~PathPresent(doc, Prefix(k, n))

\* The n-th segment is there and its value is not an object
NonObjectAt(doc, k, n) ==
    PathPresent(doc, Prefix(k, n)) /\ ~IsObj(ValueAt(doc, Prefix(k, n)))

\* doc with the value at a present path replaced
RECURSIVE Replaced(_, _, _)
Replaced(doc, path, value) ==
    [x \in DOMAIN doc |->
        IF x # Head(path) THEN doc[x]
        ELSE IF Len(path) = 1 THEN value
        ELSE Obj(Replaced(doc[x].f, Tail(path), value))]

\* C5: a call whose override map holds a key that is neither a top-level key of
\* the document nor in the allow-list fails and leaves config.json as it was.
C5_UnknownKeyFailsAtomically ==
    CfgCalled =>
        ((\E j \in DOMAIN cfgOverrides : UnknownKey(cfgOverrides[j].k, CfgBeforeDoc))
            => CfgLastErr # "none" /\ cfgDisk = CfgBefore)

\* The unknown key comes second, after a valid key whose override changed the
\* document in memory
C5_Witness ==
    /\ Len(cfgErrs) = 1
    /\ Len(cfgOverrides) = 2
    /\ ~UnknownKey(cfgOverrides[1].k, CfgBeforeDoc)
    /\ UnknownKey(cfgOverrides[2].k, CfgBeforeDoc)
    /\ LET first == ApplyOverride(CfgBeforeDoc, cfgOverrides[1].k, cfgOverrides[1].v)
       IN  first.err = "none" /\ first.dict # CfgBeforeDoc
    /\ CfgLastErr = "ValueError"

\* The content of config.json after the n-th call
CfgAfterCall(n) == IF n < Len(cfgHist) THEN cfgHist[n + 1] ELSE cfgDisk

\* C6, as claimed: when a call succeeds, the next call with the same override
\* map succeeds and leaves the document as the first left it.
C6_AsClaimed ==
    \A n \in 2..Len(cfgErrs) :
        cfgErrs[n - 1] = "none" =>
            cfgErrs[n] = "none" /\ CfgAfterCall(n) = CfgAfterCall(n - 1)

\* The map holds a dotted key of three or more segments and, for the first
\* segment of that key, a value that is not an object
ScalarOverDottedParent ==
    \E i, j \in DOMAIN cfgOverrides :
        /\ Len(cfgOverrides[i].k) >= 3
        /\ cfgOverrides[j].k = <<cfgOverrides[i].k[1]>>
        /\ ~IsObj(cfgOverrides[j].v)

\* C6, the part the code keeps: the same for every map not of that shape.
C6_ExceptScalarOverDottedParent == ~ScalarOverDottedParent => C6_AsClaimed

\* C7, as claimed: a call with one override for a top-level key of the document
\* succeeds; two objects are merged one level deep, and in every other
\* combination the override value replaces the existing one.
C7_AsClaimed ==
    (Len(cfgErrs) = 1 /\ Len(cfgOverrides) = 1 /\ InConfig(cfgOverrides[1].k, CfgBeforeDoc)) =>
        LET key == cfgOverrides[1].k[1]
            old == CfgBeforeDoc[key]
            new == cfgOverrides[1].v
            merged == Obj([x \in DOMAIN old.f \cup DOMAIN new.f |->
                              IF x \in DOMAIN new.f THEN new.f[x] ELSE old.f[x]])
        IN  /\ CfgLastErr = "none"
            /\ CfgAfterDoc = Replaced(CfgBeforeDoc, <<key>>,
                                      IF IsObj(old) /\ IsObj(new) THEN merged ELSE new)

\* C7, the part the code keeps: the same, unless the existing value is not an
\* object and the override value is one.
C7_ExceptObjectOverScalar ==
    (Len(cfgErrs) = 1 /\ Len(cfgOverrides) = 1 /\ InConfig(cfgOverrides[1].k, CfgBeforeDoc)) =>
        LET key == cfgOverrides[1].k[1]
            old == CfgBeforeDoc[key]
            new == cfgOverrides[1].v
            merged == Obj([x \in DOMAIN old.f \cup DOMAIN new.f |->
                              IF x \in DOMAIN new.f THEN new.f[x] ELSE old.f[x]])
        IN  IF ~IsObj(old) /\ IsObj(new)
            THEN CfgLastErr = "AttributeError" /\ cfgDisk = CfgBefore
            ELSE /\ CfgLastErr = "none"
                 /\ CfgAfterDoc = Replaced(CfgBeforeDoc, <<key>>,
                                           IF IsObj(old) /\ IsObj(new) THEN merged ELSE new)

\* No earlier key of the map has the same first segment as the j-th
FirstOnItsKey(j) == \A i \in 1..(j - 1) : cfgOverrides[i].k[1] # cfgOverrides[j].k[1]

C9_AsClaimed ==
    (/\ Len(cfgErrs) = 1
     /\ Len(cfgOverrides) = 1
     /\ AcceptedDotted(cfgOverrides[1].k)
     /\ \E n \in Intermediates(cfgOverrides[1].k) :
            NonObjectAt(CfgBeforeDoc, cfgOverrides[1].k, n)) =>
        CfgLastErr # "none" /\ cfgDisk = CfgBefore

\* C9, amended: in a call with one accepted dotted key of which a segment before
\* the last is there but is not an object, that value is not preserved.  When
\* it is the last segment before the final field the call succeeds and the value
\* becomes an object holding the final field alone; when more segments follow,
\* the call fails with ValueError and config.json is left as it was.
C9_NonObjectIntermediateCoerced ==
    (Len(cfgErrs) = 1 /\ Len(cfgOverrides) = 1 /\ AcceptedDotted(cfgOverrides[1].k)) =>
        LET k == cfgOverrides[1].k IN
        \A n \in Intermediates(k) :
            NonObjectAt(CfgBeforeDoc, k, n) =>
                IF n = Len(k) - 1
                THEN /\ CfgLastErr = "none"
                     /\ CfgAfterDoc = Replaced(CfgBeforeDoc, Prefix(k, n),
                                               Obj(k[Len(k)] :> cfgOverrides[1].v))
                ELSE CfgLastErr = "ValueError" /\ cfgDisk = CfgBefore

\* tracked_shards_config is a scalar and the key sets a field in it
C9_Witness ==
    /\ Len(cfgErrs) = 1
    /\ Len(cfgOverrides) = 1
    /\ cfgOverrides[1].k = <<"tracked_shards_config", "Schedule">>
    /\ NonObjectAt(CfgBeforeDoc, cfgOverrides[1].k, 1)
    /\ CfgLastErr = "none"
    /\ IsObj(CfgAfterDoc["tracked_shards_config"])

(***************************************************************************)
(* Claims about apply_genesis_changes, under SpecGenesis                    *)
(***************************************************************************)
GenCalled == genErrs # <<>>
GenBefore == genHist[Len(genHist)]
GenLastErr == genErrs[Len(genErrs)]
GenBeforeDoc == GenBefore[1]
GenAfterDoc == genDisk[1]

\* The path a change assigns to: its segments, the target key included
ChangePath(change) == SubSeq(change, 1, Len(change) - 1)

IsPrefix(p, q) == Len(p) <= Len(q) /\ SubSeq(q, 1, Len(p)) = p
IsProperPrefix(p, q) == Len(p) < Len(q) /\ IsPrefix(p, q)

\* Every path of a document: keys of objects and indices of arrays
RECURSIVE PathsOf(_)
PathsOf(val) ==
    IF IsObj(val)
    THEN UNION { {<<Key(x)>>} \cup {<<Key(x)>> \o q : q \in PathsOf(val.f[x])} :
                 x \in DOMAIN val.f }
    ELSE IF IsArr(val)
    THEN UNION { {<<Idx(j - 1)>>} \cup {<<Idx(j - 1)>> \o q : q \in PathsOf(val.e[j])} :
                 j \in DOMAIN val.e }
    ELSE {}

\* The value at a path of the document
RECURSIVE GenValueAt(_, _)
GenValueAt(val, path) ==
    IF path = <<>> THEN val
    ELSE IF IsObj(val) THEN GenValueAt(val.f[Head(path).s], Tail(path))
    ELSE GenValueAt(val.e[Head(path).n + 1], Tail(path))

\* The j-th change targets a path the document does not have, and no earlier
\* change of the list replaces a container on the way to it
TargetsAbsentPath(j) ==
    /\ ChangePath(genChanges[j]) \notin PathsOf(GenBeforeDoc)
    /\ \A i \in 1..(j - 1) :
          ~IsProperPrefix(ChangePath(genChanges[i]), ChangePath(genChanges[j]))

\* No later change of the list assigns to the j-th change's path, to a container
\* on the way to it, or inside its value
NotOverwritten(j) ==
    \A i \in (j + 1)..Len(genChanges) :
        /\ ~IsPrefix(ChangePath(genChanges[i]), ChangePath(genChanges[j]))
        /\ ~IsPrefix(ChangePath(genChanges[j]), ChangePath(genChanges[i]))

\* C10: a call never adds a key: every path of the document after a successful
\* call was there before or lies inside a value a change assigned; a change
\* whose path is absent makes the call fail; a failed call leaves genesis.json
\* as it was, also after valid changes; after a successful call a path holds
\* the value of the last change made to it.
C10_GenesisChangesSetExistingKeys ==
    GenCalled =>
        /\ GenLastErr = "none" =>
              \A q \in PathsOf(GenAfterDoc) :
                  \/ q \in PathsOf(GenBeforeDoc)
                  \/ \E j \in DOMAIN genChanges : IsProperPrefix(ChangePath(genChanges[j]), q)
        /\ (\E j \in DOMAIN genChanges : TargetsAbsentPath(j)) => GenLastErr # "none"
        /\ GenLastErr # "none" => genDisk = GenBefore
        /\ GenLastErr = "none" =>
              \A j \in DOMAIN genChanges :
                  NotOverwritten(j) =>
                      GenValueAt(GenAfterDoc, ChangePath(genChanges[j])) = ChangeValue(genChanges[j])

\* A valid change that would alter the document, then one to an absent key: the
\* call has failed and the file is as before
C10_Witness ==
    /\ Len(genErrs) = 1
    /\ Len(genChanges) = 2
    /\ ChangePath(genChanges[1]) = <<Key("validators"), Idx(0), Key("amount")>>
    /\ ChangePath(genChanges[1]) \in PathsOf(GenBeforeDoc)
    /\ ChangePath(genChanges[2]) = <<Key("protocol_version")>>
    /\ GenLastErr = "AssertionError"
    /\ genDisk = GenBefore

\* Two changes to one path with different values: the call has succeeded and
\* the second value stands
C10_LastChangeWins ==
    /\ Len(genErrs) = 1
    /\ Len(genChanges) = 2
    /\ ChangePath(genChanges[1]) = ChangePath(genChanges[2])
    /\ ChangeValue(genChanges[1]) # ChangeValue(genChanges[2])
    /\ GenLastErr = "none"
    /\ GenValueAt(GenAfterDoc, ChangePath(genChanges[2])) = ChangeValue(genChanges[2])

(***************************************************************************)
(* One LocalNode handle and its subprocess                                  *)
(***************************************************************************)
MaxStoreTests == 1
MaxCheckResult == 1
MaxOrphans == 1

\* How the child answers signals: it exits within the 5-second wait after
\* SIGINT; or it does not, and is reaped within 5 seconds of SIGKILL; or it is
\* not reaped within 5 seconds of SIGKILL either.
Tempers == {"graceful", "ignores_sigint", "unreapable"}

NodeDir == <<"test0">>
TargetPath(node_dir) == node_dir \o <<"_finished">>

\* BaseNode.__init__ and LocalNode.__init__: the attributes of a new handle.
\* Neither sets _pid; once run_cmd has set it, it is the pid of the child the
\* field child describes, the latest one spawned.
LocalNodeState(node_dir) ==
    [process |-> "None", child |-> "none", temper |-> "graceful", orphans |-> 0,
     cleaned |-> FALSE, node_dir |-> node_dir,
     is_check_store |-> TRUE, store_tests |-> 0,
     start_proxy |-> FALSE, proxy_local_stopped |-> "None", pid |-> "unset"]

\* proxy.proxify_node(node) in spin_up_node gives the handle a _start_proxy
proxify_node(h) == [h EXCEPT !.start_proxy = TRUE]

\* start_proxy_if_needed: the value _start_proxy() returns is that of a proxy
\* that runs
start_proxy_if_needed(h) ==
    IF h.start_proxy THEN [h EXCEPT !.proxy_local_stopped = "0"] ELSE h

\* The first two statements of kill: the proxy is told to stop
SignalProxy(h) ==
    IF h.proxy_local_stopped # "None" THEN [h EXCEPT !.proxy_local_stopped = "1"] ELSE h

Held(h) == h.process = "Popen"
Alive(h) == Held(h) /\ h.child = "running"

\* run_cmd: Popen, and self._process is overwritten; a child the handle held
\* and that still runs is no longer reachable through the handle
run_cmd(h, temper) ==
    [h EXCEPT !.process = "Popen", !.child = "running", !.temper = temper,
              !.orphans = IF Alive(h) THEN @ + 1 ELSE @, !.pid = "child"]

\* kill without the second block: after SIGINT no forced kill follows
killGentleOnly(h0, gentle) ==
    LET h == SignalProxy(h0) IN
    IF Held(h) /\ gentle /\ (~Alive(h) \/ h.temper = "graceful")
    THEN [h |-> [h EXCEPT !.process = "None", !.child = "exited"],
          events |-> IF Alive(h) THEN <<"SIGINT", "exit">> ELSE <<>>, err |-> "none"]
    ELSE IF Held(h) /\ gentle
    THEN [h |-> h, events |-> <<"SIGINT">>, err |-> "none"]
    ELSE IF Held(h) /\ h.temper # "unreapable"
    THEN [h |-> [h EXCEPT !.process = "None", !.child = "exited"],
          events |-> IF Alive(h) THEN <<"SIGKILL", "exit">> ELSE <<>>, err |-> "none"]
    ELSE [h |-> h, events |-> <<>>, err |-> "none"]

\* kill without the test of self._process before the forced kill
killUnguarded(h0, gentle) ==
    LET h == SignalProxy(h0) IN
    IF ~Held(h)
    THEN [h |-> h, events |-> <<>>, err |-> "AttributeError"]
    ELSE [h |-> [h EXCEPT !.process = "None", !.child = "exited"],
          events |-> IF Alive(h) THEN <<"SIGKILL", "exit">> ELSE <<>>, err |-> "none"]

\* LocalNode.kill.  Popen.send_signal and Popen.kill poll first and send
\* nothing to a child that has exited; wait(5) returns at once for such a child.
kill(h0, gentle) ==
    LET h == SignalProxy(h0)
        sigint == Held(h) /\ gentle
        exitedInWait == sigint /\ (~Alive(h) \/ h.temper = "graceful")
        ev1 == IF sigint /\ Alive(h)
               THEN (IF h.temper = "graceful" THEN <<"SIGINT", "exit">> ELSE <<"SIGINT">>)
               ELSE <<>>
        h1 == IF exitedInWait THEN [h EXCEPT !.process = "None", !.child = "exited"] ELSE h
        reaped == ~Alive(h1) \/ h1.temper # "unreapable"
        ev2 == IF Alive(h1)
               THEN (IF reaped THEN <<"SIGKILL", "exit">> ELSE <<"SIGKILL">>)
               ELSE <<>>
    IN  IF ~Held(h1)
        THEN [h |-> h1, events |-> ev1, err |-> "none"]
        ELSE IF reaped
        THEN [h |-> [h1 EXCEPT !.process = "None", !.child = "exited"],
              events |-> ev1 \o ev2, err |-> "none"]
        ELSE [h |-> h1, events |-> ev1 \o ev2, err |-> "TimeoutExpired"]

\* What the adv_check_store RPC can give back
RpcReplies ==
    {[kind |-> k, n |-> 0] : k \in {"BadStatusCode", "no_result", "ConnectionError"}}
        \cup {[kind |-> "result", n |-> n] : n \in 0..MaxCheckResult}
NoReply == [kind |-> "no_result", n |-> 0]

\* check_store that does not kill on result 0
check_storeNoKill(h, rpc) ==
    IF ~h.is_check_store
    THEN [h |-> h, checks |-> 0, events |-> <<>>, err |-> "none"]
    ELSE IF rpc.kind = "ConnectionError"
    THEN [h |-> h, checks |-> 1, events |-> <<>>, err |-> "ConnectionError"]
    ELSE IF rpc.kind = "result"
    THEN [h |-> [h EXCEPT !.store_tests = @ + rpc.n], checks |-> 1,
          events |-> <<>>, err |-> "none"]
    ELSE [h |-> h, checks |-> 1, events |-> <<>>, err |-> "none"]

\* BaseNode.check_store
check_store(h, rpc) ==
    IF ~h.is_check_store
    THEN [h |-> h, checks |-> 0, events |-> <<>>, err |-> "none"]
    ELSE IF rpc.kind = "BadStatusCode" \/ rpc.kind = "no_result"
    THEN [h |-> h, checks |-> 1, events |-> <<>>, err |-> "none"]
    ELSE IF rpc.kind = "ConnectionError"
    THEN [h |-> h, checks |-> 1, events |-> <<>>, err |-> "ConnectionError"]
    ELSE IF rpc.n = 0
    THEN LET k == kill(h, FALSE)
         IN  [h |-> k.h, checks |-> 1, events |-> k.events, err |-> k.err]
    ELSE [h |-> [h EXCEPT !.store_tests = @ + rpc.n], checks |-> 1,
          events |-> <<>>, err |-> "none"]

\* get_status that checks the store whatever the sync state and the argument
get_statusAlwaysChecking(h, check_storage, http, syncing, rpc) ==
    IF http # "ok"
    THEN [h |-> h, checks |-> 0, events |-> <<>>, err |-> "HTTPError"]
    ELSE check_store(h, rpc)

\* BaseNode.get_status: the GET of /status, then check_store when asked for and
\* the node says it is not syncing
get_status(h, check_storage, http, syncing, rpc) ==
    IF http # "ok"
    THEN [h |-> h, checks |-> 0, events |-> <<>>, err |-> "HTTPError"]
    ELSE IF check_storage /\ syncing = FALSE
    THEN check_store(h, rpc)
    ELSE [h |-> h, checks |-> 0, events |-> <<>>, err |-> "none"]

\* The /status endpoint answers only while a node process runs
HttpOutcomes(h) == IF h.child = "running" \/ h.orphans > 0 THEN {"ok", "fail"} ELSE {"fail"}

\* shutil.rmtree(target_path) when it is there
Rmtree(files, target) == [d \in DOMAIN files \ {target} |-> files[d]]

\* os.rename(self.node_dir, target_path)
Rename(files, from, to) ==
    [d \in (DOMAIN files \ {from}) \cup {to} |-> IF d = to THEN files[from] ELSE files[d]]

\* LocalNode.cleanup without the try/except around self.kill()
cleanupKillPropagates(h, files, renameFails) ==
    IF h.cleaned
    THEN [h |-> h, fs |-> files, events |-> <<>>, err |-> "none"]
    ELSE LET k == kill(h, FALSE)
             target == TargetPath(h.node_dir)
         IN  IF k.err # "none"
             THEN [h |-> k.h, fs |-> files, events |-> k.events, err |-> k.err]
             ELSE IF renameFails \/ h.node_dir \notin DOMAIN files
             THEN [h |-> k.h, fs |-> Rmtree(files, target), events |-> k.events,
                   err |-> "OSError"]
             ELSE [h |-> [k.h EXCEPT !.node_dir = target, !.cleaned = TRUE],
                   fs |-> Rename(Rmtree(files, target), h.node_dir, target),
                   events |-> k.events, err |-> "none"]

\* LocalNode.cleanup that archives the directory and leaves self.node_dir as it was
cleanupKeepsNodeDir(h, files, renameFails) ==
    IF h.cleaned
    THEN [h |-> h, fs |-> files, events |-> <<>>, err |-> "none"]
    ELSE LET k == kill(h, FALSE)
             target == TargetPath(h.node_dir)
         IN  IF renameFails \/ h.node_dir \notin DOMAIN files
             THEN [h |-> k.h, fs |-> Rmtree(files, target), events |-> k.events,
                   err |-> "OSError"]
             ELSE [h |-> [k.h EXCEPT !.cleaned = TRUE],
                   fs |-> Rename(Rmtree(files, target), h.node_dir, target),
                   events |-> k.events, err |-> "none"]

\* LocalNode.cleanup
cleanup(h, files, renameFails) ==
    IF h.cleaned
    THEN [h |-> h, fs |-> files, events |-> <<>>, err |-> "none"]
    ELSE LET k == kill(h, FALSE)
             target == TargetPath(h.node_dir)
         IN  IF renameFails \/ h.node_dir \notin DOMAIN files
             THEN [h |-> k.h, fs |-> Rmtree(files, target), events |-> k.events,
                   err |-> "OSError"]
             ELSE [h |-> [k.h EXCEPT !.node_dir = target, !.cleaned = TRUE],
                   fs |-> Rename(Rmtree(files, target), h.node_dir, target),
                   events |-> k.events, err |-> "none"]

\* atexit_cleanup of a LocalNode: the two log lines, then cleanup in try/except
atexit_cleanup(h, files, renameFails) ==
    [cleanup(h, files, renameFails) EXCEPT !.err = "none"]

\* The record of a call: what it was given, where it started, how it ended
Call(op, gentle, check_storage, http, syncing, rpc, pre, res, checks) ==
    [op |-> op, gentle |-> gentle, check_storage |-> check_storage, http |-> http,
     syncing |-> syncing, rpc |-> rpc, held |-> Held(pre), alive |-> Alive(pre),
     events |-> res.events, checks |-> checks, err |-> res.err]

NoCall ==
    [op |-> "none", gentle |-> FALSE, check_storage |-> FALSE, http |-> "fail",
     syncing |-> FALSE, rpc |-> NoReply, held |-> FALSE, alive |-> FALSE,
     events |-> <<>>, checks |-> 0, err |-> "none"]

\* A handle made by spin_up_node; a directory test0_finished of an earlier run
\* may still be there
NodeInit ==
    /\ local_node \in {LocalNodeState(NodeDir), proxify_node(LocalNodeState(NodeDir))}
    /\ fs \in {(NodeDir :> "run"), (NodeDir :> "run") @@ (TargetPath(NodeDir) :> "stale")}
    /\ interp = "running"
    /\ last = NoCall

NodeIdle ==
    /\ local_node = LocalNodeState(NodeDir)
    /\ fs = (NodeDir :> "run")
    /\ interp = "idle"
    /\ last = NoCall

WithinStoreBound(h, rpc) == h.store_tests + rpc.n <= MaxStoreTests

\* A call that sends the check RPC is given a reply; one that does not is
\* given the empty one
ValidInput(h, check_storage, http, syncing, rpc) ==
    /\ http \in HttpOutcomes(h)
    /\ (http = "fail") => (syncing = FALSE)
    /\ ~(http = "ok" /\ check_storage /\ ~syncing /\ h.is_check_store) => (rpc = NoReply)
    /\ WithinStoreBound(h, rpc)

\* LocalNode.start: the wait for the previous proxy to close, run_cmd, the
\* proxy, then wait_for_rpc(10), of which the last attempt of get_status is
\* taken; what it raises is logged and dropped
NodeStart(temper, skip_starting_proxy, http, syncing, rpc) ==
    /\ interp = "running"
    /\ local_node.proxy_local_stopped \in {"None", "2"}
    /\ ValidInput(run_cmd(local_node, temper), TRUE, http, syncing, rpc)
    /\ Alive(local_node) => local_node.orphans < MaxOrphans
    /\ LET h0 == run_cmd(local_node, temper)
           h1 == IF skip_starting_proxy THEN h0 ELSE start_proxy_if_needed(h0)
           st == get_status(h1, TRUE, http, syncing, rpc)
       IN  /\ local_node' = st.h
           /\ last' = Call("start", FALSE, TRUE, http, syncing, rpc, local_node,
                           [st EXCEPT !.err = "none"], st.checks)
    /\ UNCHANGED <<fs, interp>>
    /\ UNCHANGED nodeFrame

NodeKill(gentle) ==
    /\ interp = "running"
    /\ LET k == kill(local_node, gentle)
       IN  /\ local_node' = k.h
           /\ last' = Call("kill", gentle, FALSE, "fail", FALSE, NoReply, local_node, k, 0)
    /\ UNCHANGED <<fs, interp>>
    /\ UNCHANGED nodeFrame

NodeGetStatus(check_storage, http, syncing, rpc) ==
    /\ interp = "running"
    /\ ValidInput(local_node, check_storage, http, syncing, rpc)
    /\ LET st == get_status(local_node, check_storage, http, syncing, rpc)
       IN  /\ local_node' = st.h
           /\ last' = Call("get_status", FALSE, check_storage, http, syncing, rpc,
                           local_node, st, st.checks)
    /\ UNCHANGED <<fs, interp>>
    /\ UNCHANGED nodeFrame

\* stop_checking_store
NodeStopCheckingStore ==
    /\ interp = "running"
    /\ local_node' = [local_node EXCEPT !.is_check_store = FALSE]
    /\ last' = Call("stop_checking_store", FALSE, FALSE, "fail", FALSE, NoReply, local_node,
                    [events |-> <<>>, err |-> "none"], 0)
    /\ UNCHANGED <<fs, interp>>
    /\ UNCHANGED nodeFrame

NodeCleanup(renameFails) ==
    /\ interp = "running"
    /\ LET c == cleanup(local_node, fs, renameFails)
       IN  /\ local_node' = c.h
           /\ fs' = c.fs
           /\ last' = Call("cleanup", FALSE, FALSE, "fail", FALSE, NoReply, local_node, c, 0)
    /\ UNCHANGED interp
    /\ UNCHANGED nodeFrame

\* LocalNode.stop_network: network.stop(self._pid)
stop_network(h) ==
    IF h.pid = "unset"
    THEN [h |-> h, events |-> <<>>, err |-> "AttributeError"]
    ELSE [h |-> h, events |-> <<"network.stop">>, err |-> "none"]

\* LocalNode.resume_network: network.resume_network(self._pid)
resume_network(h) ==
    IF h.pid = "unset"
    THEN [h |-> h, events |-> <<>>, err |-> "AttributeError"]
    ELSE [h |-> h, events |-> <<"network.resume_network">>, err |-> "none"]

NodeStopNetwork ==
    /\ interp = "running"
    /\ LET r == stop_network(local_node)
       IN  /\ local_node' = r.h
           /\ last' = Call("stop_network", FALSE, FALSE, "fail", FALSE, NoReply,
                           local_node, r, 0)
    /\ UNCHANGED <<fs, interp>>
    /\ UNCHANGED nodeFrame

NodeResumeNetwork ==
    /\ interp = "running"
    /\ LET r == resume_network(local_node)
       IN  /\ local_node' = r.h
           /\ last' = Call("resume_network", FALSE, FALSE, "fail", FALSE, NoReply,
                           local_node, r, 0)
    /\ UNCHANGED <<fs, interp>>
    /\ UNCHANGED nodeFrame

\* The child exits by itself
ChildExits ==
    /\ interp = "running"
    /\ Alive(local_node)
    /\ local_node' = [local_node EXCEPT !.child = "exited"]
    /\ last' = Call("child_exit", FALSE, FALSE, "fail", FALSE, NoReply, local_node,
                    [events |-> <<"exit">>, err |-> "none"], 0)
    /\ UNCHANGED <<fs, interp>>
    /\ UNCHANGED nodeFrame

\* The proxy that was told to stop has closed
ProxyCloses ==
    /\ interp = "running"
    /\ local_node.proxy_local_stopped = "1"
    /\ local_node' = [local_node EXCEPT !.proxy_local_stopped = "2"]
    /\ last' = Call("proxy_closed", FALSE, FALSE, "fail", FALSE, NoReply, local_node,
                    [events |-> <<>>, err |-> "none"], 0)
    /\ UNCHANGED <<fs, interp>>
    /\ UNCHANGED nodeFrame

\* Interpreter exit: the hook registered at cluster.py:577 runs
NodeAtExit(renameFails) ==
    /\ interp = "running"
    /\ LET c == atexit_cleanup(local_node, fs, renameFails)
       IN  /\ local_node' = c.h
           /\ fs' = c.fs
           /\ last' = Call("atexit_cleanup", FALSE, FALSE, "fail", FALSE, NoReply, local_node, c, 0)
    /\ interp' = "exited"
    /\ UNCHANGED nodeFrame

NodeNext ==
    \/ \E temper \in Tempers, skip_starting_proxy \in BOOLEAN, http \in {"ok", "fail"},
          syncing \in BOOLEAN, rpc \in RpcReplies :
          NodeStart(temper, skip_starting_proxy, http, syncing, rpc)
    \/ \E gentle \in BOOLEAN : NodeKill(gentle)
    \/ \E check_storage \in BOOLEAN, http \in {"ok", "fail"}, syncing \in BOOLEAN,
          rpc \in RpcReplies : NodeGetStatus(check_storage, http, syncing, rpc)
    \/ NodeStopCheckingStore
    \/ \E renameFails \in BOOLEAN : NodeCleanup(renameFails)
    \/ NodeStopNetwork
    \/ NodeResumeNetwork
    \/ ChildExits
    \/ ProxyCloses
    \/ \E renameFails \in BOOLEAN : NodeAtExit(renameFails)

C12_KillOfStoppedIsNoOp ==
    /\ [][\A gentle \in BOOLEAN :
             (NodeKill(gentle) /\ ~Held(local_node)) =>
                 /\ last'.events = <<>>
                 /\ last'.err = "none"
                 /\ local_node' = SignalProxy(local_node)
                 /\ ~Held(local_node')]_vars
    /\ [](\A g1, g2 \in BOOLEAN :
             LET k1 == kill(local_node, g1)
             IN  (k1.err = "none") =>
                     kill(k1.h, g2) = [h |-> k1.h, events |-> <<>>, err |-> "none"])

\* kill has returned on a handle whose process an earlier kill had ended
C12_Witness ==
    /\ last.op = "kill"
    /\ ~last.held
    /\ local_node.child = "exited"
    /\ last.events = <<>>
    /\ last.err = "none"

\* A step of get_status, or of start, whose status query is get_status with
\* check_storage left at True; the record of the call holds what it was given
StatusQueryStep == last'.op \in {"get_status", "start"}

\* C14, as claimed: on a handle with store checking enabled, a status query
\* that returned has sent one check RPC.
C14_AsClaimed ==
    [][(/\ last'.op = "get_status"
        /\ local_node.is_check_store
        /\ last'.err = "none") =>
           last'.checks = 1]_vars

\* C14, amended: on a handle with store checking enabled, get_status sends one
\* check RPC when the GET succeeded, check_storage is true and the status says
\* syncing is false, and none otherwise; the status query of start
\* (wait_for_rpc, check_storage left at its default) follows the same rule.
C14_CheckedWhenAskedAndNotSyncing ==
    [][(StatusQueryStep /\ local_node.is_check_store) =>
           last'.checks =
               IF last'.http = "ok" /\ last'.check_storage /\ ~last'.syncing THEN 1 ELSE 0]_vars

\* A status query of a syncing node has returned and no check was sent
C14_Witness ==
    /\ last.op = "get_status"
    /\ last.http = "ok"
    /\ last.check_storage
    /\ last.syncing
    /\ local_node.is_check_store
    /\ last.checks = 0
    /\ last.err = "none"

\* C15: a check that reports 0 on a handle with checking enabled leaves no
\* process held and no child running when the query returns, the child that
\* ran having been sent SIGKILL; with checking stopped a status query sends no
\* check and no signal; checking once stopped stays stopped; store_tests never
\* decreases.
C15_InconsistentStoreKills ==
    /\ [][(/\ last'.op = "get_status"
           /\ last'.checks = 1
           /\ last'.rpc = [kind |-> "result", n |-> 0]
           /\ last'.err = "none") =>
              /\ ~Held(local_node')
              /\ local_node'.child # "running"
              /\ Alive(local_node) => (last'.events = <<"SIGKILL", "exit">>)]_vars
    /\ [][(StatusQueryStep /\ ~local_node.is_check_store) =>
              (last'.checks = 0 /\ last'.events = <<>>)]_vars
    /\ [][(~local_node.is_check_store) => ~local_node'.is_check_store]_vars
    /\ [][local_node'.store_tests >= local_node.store_tests]_vars

\* A status query whose check reported 0 has returned and the child that ran
\* was killed
C15_Witness ==
    /\ last.op = "get_status"
    /\ last.rpc = [kind |-> "result", n |-> 0]
    /\ last.checks = 1
    /\ last.alive
    /\ last.events = <<"SIGKILL", "exit">>
    /\ last.err = "none"
    /\ ~Held(local_node)

(***************************************************************************)
(* Further claims about one LocalNode handle, under SpecNode                *)
(***************************************************************************)
\* A step of cleanup on a handle that was not cleaned yet, which returned
CleanupSucceeds ==
    /\ last'.op = "cleanup"
    /\ ~local_node.cleaned
    /\ last'.err = "none"

\* C31 as the specification words it: when cleanup has succeeded the process
\* of the node does not run.
C31_AsClaimed ==
    [][CleanupSucceeds => ~Alive(local_node')]_vars

\* C31: when cleanup succeeds, what the node directory held is under
\* <dir>_finished, the original path is gone, node_dir names the archive and
\* the handle is marked cleaned; the child the handle held does not run,
\* except when it was not reaped within the wait after SIGKILL, which cleanup
\* logs and passes over.  No step of cleanup deletes what the node directory
\* holds: the only directory it deletes is an archive that was there before.
C31_ArchivedNotDeleted ==
    /\ [][CleanupSucceeds =>
             LET target == TargetPath(local_node.node_dir)
             IN  /\ local_node.node_dir \in DOMAIN fs
                 /\ target \in DOMAIN fs'
                 /\ fs'[target] = fs[local_node.node_dir]
                 /\ local_node.node_dir \notin DOMAIN fs'
                 /\ local_node'.node_dir = target
                 /\ local_node'.cleaned
                 /\ Alive(local_node') <=>
                        (Alive(local_node) /\ local_node.temper = "unreapable")]_vars
    /\ [][(last'.op = "cleanup" /\ local_node.node_dir \in DOMAIN fs) =>
             /\ \E d \in DOMAIN fs' : fs'[d] = fs[local_node.node_dir]
             /\ (DOMAIN fs \ DOMAIN fs') \subseteq
                    {local_node.node_dir, TargetPath(local_node.node_dir)}]_vars

\* cleanup has archived the directory of a node whose child ran and was killed
C31_Witness ==
    /\ last.op = "cleanup"
    /\ last.alive
    /\ last.err = "none"
    /\ last.events = <<"SIGKILL", "exit">>
    /\ local_node.cleaned
    /\ local_node.node_dir = TargetPath(NodeDir)
    /\ fs = (TargetPath(NodeDir) :> "run")
    /\ ~Alive(local_node)

\* C34: whatever start, kill and cleanup calls were made on the handle, no
\* child it spawned runs outside the handle's reach: there is no running child
\* whose Popen object the handle has dropped, and a child that runs is the one
\* in self._process.
C34_AsClaimed ==
    /\ local_node.orphans = 0
    /\ (local_node.child = "running") => Held(local_node)

\* A step of stop_network or of resume_network
NetworkStep == last'.op \in {"stop_network", "resume_network"}

\* C36: stop_network and resume_network act on the process the handle runs at
\* that moment, never on the pid of a child that has exited or was killed, and
\* leave the handle and its process as they were.
C36_AsClaimed ==
    [][(NetworkStep /\ Len(last'.events) = 1) =>
          /\ last'.alive
          /\ local_node' = local_node]_vars

\* What does hold of the two calls: they change nothing of the handle, send no
\* signal, and once a child was spawned they act on the pid of the latest one
C36_HandleUntouched ==
    [][NetworkStep =>
          /\ local_node' = local_node
          /\ fs' = fs
          /\ (last'.err = "none") <=> (local_node.pid = "child")
          /\ (last'.err = "none") =>
                last'.events \in {<<"network.stop">>, <<"network.resume_network">>}]_vars

(***************************************************************************)
(* A further claim about apply_config_changes, under SpecConfig             *)
(***************************************************************************)
\* One call has been made, with one accepted dotted key, and the document had
\* a value that is not an object at a segment before the last
CoercionCase ==
    /\ Len(cfgErrs) = 1
    /\ Len(cfgOverrides) = 1
    /\ AcceptedDotted(cfgOverrides[1].k)
    /\ \E n \in Intermediates(cfgOverrides[1].k) :
           NonObjectAt(CfgBeforeDoc, cfgOverrides[1].k, n)

\* The segment of the key at which the document has a value that is not an object
CoercedSegment ==
    CHOOSE n \in Intermediates(cfgOverrides[1].k) :
        NonObjectAt(CfgBeforeDoc, cfgOverrides[1].k, n)

MaxMachines == 2

Machines == 1..MaxMachines

\* GCloudNode.__init__ with four arguments sets no ip (cluster.py:756 is a
\* comment) and does not call BaseNode.__init__
GCloudNodeState(archive) ==
    [machine |-> "none", node_dir |-> "present", archive |-> archive, ip |-> "unset"]

\* GCloudNode.addr reads self.ip
gcloud_addr(g) == IF g.ip = "unset" THEN "AttributeError" ELSE "none"

\* GCloudNode.cleanup: kill, rmtree of an archive that is there, rename of the
\* node directory, download of the log, destroy_machine.  remoteOk: whether a
\* command sent to a machine that is not there comes back without raising
gcloud_cleanup(g, remoteOk) ==
    IF g.machine # "exists" /\ ~remoteOk
    THEN [g |-> g, killed |-> FALSE, err |-> "RemoteError"]
    ELSE IF g.node_dir # "present"
    THEN [g |-> [g EXCEPT !.archive = "none"], killed |-> TRUE,
          err |-> "FileNotFoundError"]
    ELSE [g |-> [g EXCEPT !.node_dir = "absent", !.archive = "run", !.machine = "deleted"],
          killed |-> TRUE, err |-> "none"]

\* atexit_cleanup(node) on a GCloudNode: node.addr() in the first log line is
\* outside the try
atexit_cleanup_gcloud(g, remoteOk) ==
    IF gcloud_addr(g) # "none"
    THEN [g |-> g, killed |-> FALSE, err |-> gcloud_addr(g), cleanupRan |-> FALSE]
    ELSE LET c == gcloud_cleanup(g, remoteOk)
         IN  [g |-> c.g, killed |-> c.killed, err |-> "none", cleanupRan |-> TRUE]

GTerminal == {"idle", "raised", "start_raised", "started"}
GConstructed == {"constructed", "append_locked", "appended", "start_raised", "started"}

NoGCall == [op |-> "none", m |-> 0, err |-> "none", killed |-> FALSE, again |-> FALSE,
            ran |-> {}, raised |-> {}, propagated |-> FALSE]

RemoteInit ==
    /\ gpc = [m \in Machines |-> "idle"]
    /\ gnode \in [Machines -> {GCloudNodeState("none"), GCloudNodeState("stale")}]
    /\ remote_nodes_lock = 0
    /\ cleanup_remote_nodes_atexit_registered = FALSE
    /\ atexit_registered = 0
    /\ remote_nodes = <<>>
    /\ ginterp = "running"
    /\ glast = NoGCall

RemoteIdle ==
    /\ gpc = [m \in Machines |-> "idle"]
    /\ gnode = [m \in Machines |-> GCloudNodeState("none")]
    /\ remote_nodes_lock = 0
    /\ cleanup_remote_nodes_atexit_registered = FALSE
    /\ atexit_registered = 0
    /\ remote_nodes = <<>>
    /\ ginterp = "idle"
    /\ glast = NoGCall

\* gcloud.create: the machine is there when it returns
GCreate(m, ok) ==
    /\ ginterp = "running"
    /\ gpc[m] = "idle"
    /\ gpc' = [gpc EXCEPT ![m] = IF ok THEN "created" ELSE "raised"]
    /\ gnode' = [gnode EXCEPT ![m].machine = IF ok THEN "exists" ELSE @]
    /\ UNCHANGED <<remote_nodes_lock, cleanup_remote_nodes_atexit_registered,
                   atexit_registered, remote_nodes, ginterp, glast>>
    /\ UNCHANGED remoteFrame

\* self._upload_config_files(node_dir)
GUpload(m, ok) ==
    /\ ginterp = "running"
    /\ gpc[m] = "created"
    /\ gpc' = [gpc EXCEPT ![m] = IF ok THEN "uploaded" ELSE "raised"]
    /\ UNCHANGED <<gnode, remote_nodes_lock, cleanup_remote_nodes_atexit_registered,
                   atexit_registered, remote_nodes, ginterp, glast>>
    /\ UNCHANGED remoteFrame

\* self._download_binary(binary): DownloadException after the third attempt
GDownload(m, ok) ==
    /\ ginterp = "running"
    /\ gpc[m] = "uploaded"
    /\ gpc' = [gpc EXCEPT ![m] = IF ok THEN "downloaded" ELSE "raised"]
    /\ UNCHANGED <<gnode, remote_nodes_lock, cleanup_remote_nodes_atexit_registered,
                   atexit_registered, remote_nodes, ginterp, glast>>
    /\ UNCHANGED remoteFrame

\* The lock is taken whoever holds it
LockIgnored == TRUE

\* threading.Lock: acquired only when nobody holds it
LockFree == remote_nodes_lock = 0

\* with remote_nodes_lock: at cluster.py:759 and at cluster.py:903
GAcquire(m) ==
    /\ ginterp = "running"
    /\ gpc[m] \in {"downloaded", "constructed"}
    /\ LockFree
    /\ remote_nodes_lock' = m
    /\ gpc' = [gpc EXCEPT ![m] = IF @ = "downloaded" THEN "ctor_locked" ELSE "append_locked"]
    /\ UNCHANGED <<gnode, cleanup_remote_nodes_atexit_registered, atexit_registered,
                   remote_nodes, ginterp, glast>>
    /\ UNCHANGED remoteFrame

\* if not cleanup_remote_nodes_atexit_registered
ShouldRegister == ~cleanup_remote_nodes_atexit_registered

\* atexit.register(atexit_cleanup_remote), when the flag is not set
GRegister(m) ==
    /\ gpc[m] = "ctor_locked"
    /\ atexit_registered' = IF ShouldRegister THEN atexit_registered + 1 ELSE atexit_registered
    /\ gpc' = [gpc EXCEPT ![m] = IF ShouldRegister THEN "ctor_flag" ELSE "ctor_release"]
    /\ UNCHANGED <<gnode, remote_nodes_lock, cleanup_remote_nodes_atexit_registered,
                   remote_nodes, ginterp, glast>>
    /\ UNCHANGED remoteFrame

\* cleanup_remote_nodes_atexit_registered = True
GSetFlag(m) ==
    /\ gpc[m] = "ctor_flag"
    /\ cleanup_remote_nodes_atexit_registered' = TRUE
    /\ gpc' = [gpc EXCEPT ![m] = "ctor_release"]
    /\ UNCHANGED <<gnode, remote_nodes_lock, atexit_registered, remote_nodes, ginterp, glast>>
    /\ UNCHANGED remoteFrame

\* The end of the with block in __init__: the constructor returns
GRelease(m) ==
    /\ gpc[m] = "ctor_release"
    /\ remote_nodes_lock' = 0
    /\ gpc' = [gpc EXCEPT ![m] = "constructed"]
    /\ UNCHANGED <<gnode, cleanup_remote_nodes_atexit_registered, atexit_registered,
                   remote_nodes, ginterp, glast>>
    /\ UNCHANGED remoteFrame

\* An append that loses what other threads appended: the list is read, then
\* written back with the new handle alone
GAppendOverwrites(m) ==
    /\ gpc[m] = "append_locked"
    /\ remote_nodes' = <<m>>
    /\ remote_nodes_lock' = 0
    /\ gpc' = [gpc EXCEPT ![m] = "appended"]
    /\ UNCHANGED <<gnode, cleanup_remote_nodes_atexit_registered, atexit_registered,
                   ginterp, glast>>
    /\ UNCHANGED remoteFrame

\* remote_nodes.append(node), and the end of the with block in spin_up_node
GAppend(m) ==
    /\ gpc[m] = "append_locked"
    /\ remote_nodes' = Append(remote_nodes, m)
    /\ remote_nodes_lock' = 0
    /\ gpc' = [gpc EXCEPT ![m] = "appended"]
    /\ UNCHANGED <<gnode, cleanup_remote_nodes_atexit_registered, atexit_registered,
                   ginterp, glast>>
    /\ UNCHANGED remoteFrame

\* node.start(boot_node=boot_node, skip_starting_proxy=skip_starting_proxy)
GStart(m, rpcReady) ==
    /\ ginterp = "running"
    /\ gpc[m] = "appended"
    /\ gpc' = [gpc EXCEPT ![m] =
                  IF GCloudStartOutcome(SpinUpStartKeywords, {}, rpcReady) = "ready"
                  THEN "started" ELSE "start_raised"]
    /\ UNCHANGED <<gnode, remote_nodes_lock, cleanup_remote_nodes_atexit_registered,
                   atexit_registered, remote_nodes, ginterp, glast>>
    /\ UNCHANGED remoteFrame

\* node.cleanup() called by the code that holds the handle
GCleanup(m, remoteOk) ==
    /\ ginterp = "running"
    /\ gpc[m] \in {"start_raised", "started"}
    /\ LET c == gcloud_cleanup(gnode[m], remoteOk)
       IN  /\ gnode' = [gnode EXCEPT ![m] = c.g]
           /\ glast' = [NoGCall EXCEPT !.op = "cleanup", !.m = m, !.err = c.err,
                                       !.killed = c.killed,
                                       !.again = (gnode[m].machine = "deleted")]
    /\ UNCHANGED <<gpc, remote_nodes_lock, cleanup_remote_nodes_atexit_registered,
                   atexit_registered, remote_nodes, ginterp>>
    /\ UNCHANGED remoteFrame

\* atexit_cleanup_remote, once the threads have ended: under the lock,
\* rc.pmap(atexit_cleanup, remote_nodes) when the registry is not empty.
\* Whether pmap hands on what atexit_cleanup raised is not in this file.
GExit(remoteOk, propagates) ==
    /\ ginterp = "running"
    /\ \A m \in Machines : gpc[m] \in GTerminal
    /\ remote_nodes_lock = 0
    /\ LET hookRuns == atexit_registered > 0 /\ remote_nodes # <<>>
           inRegistry == IF hookRuns THEN Range(remote_nodes) ELSE {}
           res == [m \in Machines |-> atexit_cleanup_gcloud(gnode[m], remoteOk)]
           raisedBy == {m \in inRegistry : res[m].err # "none"}
       IN  /\ propagates => raisedBy # {}
           /\ gnode' = [m \in Machines |-> IF m \in inRegistry THEN res[m].g ELSE gnode[m]]
           /\ glast' = [NoGCall EXCEPT !.op = "atexit",
                                       !.ran = {m \in inRegistry : res[m].cleanupRan},
                                       !.raised = raisedBy,
                                       !.propagated = propagates]
    /\ ginterp' = "exited"
    /\ UNCHANGED <<gpc, remote_nodes_lock, cleanup_remote_nodes_atexit_registered,
                   atexit_registered, remote_nodes>>
    /\ UNCHANGED remoteFrame

RemoteNext ==
    \/ \E m \in Machines, ok \in BOOLEAN : GCreate(m, ok)
    \/ \E m \in Machines, ok \in BOOLEAN : GUpload(m, ok)
    \/ \E m \in Machines, ok \in BOOLEAN : GDownload(m, ok)
    \/ \E m \in Machines : GAcquire(m)
    \/ \E m \in Machines : GRegister(m)
    \/ \E m \in Machines : GSetFlag(m)
    \/ \E m \in Machines : GRelease(m)
    \/ \E m \in Machines : GAppend(m)
    \/ \E m \in Machines, rpcReady \in BOOLEAN : GStart(m, rpcReady)
    \/ \E m \in Machines, remoteOk \in BOOLEAN : GCleanup(m, remoteOk)
    \/ \E remoteOk, propagates \in BOOLEAN : GExit(remoteOk, propagates)

(***************************************************************************)
(* Claims about cleanup, the registry and the exit hook                     *)
(***************************************************************************)
\* C13, as claimed: a cleanup of a GCloudNode after one that succeeded raises
\* nothing, does not kill again, and leaves the machine, the node directory
\* and the archive as they were.
C13_AsClaimed ==
    [][\A m \in Machines, remoteOk \in BOOLEAN :
          (GCleanup(m, remoteOk) /\ gnode[m].machine = "deleted") =>
              /\ glast'.err = "none"
              /\ ~glast'.killed
              /\ gnode' = gnode]_vars

\* The LocalNode half of C13, under SpecNode: cleanup on a handle with
\* cleaned set sends nothing, raises nothing and changes nothing.
C13_LocalSecondCleanupIsNoOp ==
    [][\A renameFails \in BOOLEAN :
          (NodeCleanup(renameFails) /\ local_node.cleaned) =>
              /\ last'.events = <<>>
              /\ last'.err = "none"
              /\ local_node' = local_node
              /\ fs' = fs]_vars

\* C17: atexit_cleanup_remote is never registered twice, and it is registered
\* once some GCloudNode constructor has returned.
C17_HookRegisteredOnce ==
    /\ atexit_registered <= 1
    /\ (\E m \in Machines : gpc[m] \in GConstructed) => (atexit_registered = 1)

\* One constructor has registered the hook and not yet set the flag, while
\* another waits for the lock
C17_Witness ==
    \E m1, m2 \in Machines :
        /\ gpc[m1] = "ctor_flag"
        /\ gpc[m2] = "downloaded"
        /\ ~cleanup_remote_nodes_atexit_registered
        /\ atexit_registered = 1

\* C18, as claimed: once the callers of spin_up_node have ended, every machine
\* that is there is in remote_nodes; and after the exit hook no machine is left.
C18_AsClaimed ==
    /\ (\A m \in Machines : gpc[m] \in GTerminal) =>
           \A m \in Machines : (gnode[m].machine = "exists") => (m \in Range(remote_nodes))
    /\ (ginterp = "exited") => \A m \in Machines : gnode[m].machine # "exists"

\* C19, as claimed: in the run of the exit hook nothing is raised out of
\* atexit_cleanup, the hook returns, and cleanup has run for every node of the
\* registry.
C19_AsClaimed ==
    (glast.op = "atexit") =>
        /\ glast.raised = {}
        /\ ~glast.propagated
        /\ glast.ran = Range(remote_nodes)

\* The LocalNode half of C19, under SpecNode: the hook of a LocalNode raises
\* nothing, and a cleanup whose kill raised still archives the directory.
C19_LocalCleanupFailureIsCaught ==
    /\ [][\A renameFails \in BOOLEAN :
             NodeAtExit(renameFails) => (last'.err = "none")]_vars
    /\ [][(NodeCleanup(FALSE) /\ ~local_node.cleaned /\ local_node.node_dir \in DOMAIN fs) =>
             /\ last'.err = "none"
             /\ local_node'.cleaned
             /\ TargetPath(local_node.node_dir) \in DOMAIN fs'
             /\ local_node.node_dir \notin DOMAIN fs']_vars

\* A cleanup whose kill raised TimeoutExpired has archived the directory
C19_LocalWitness ==
    /\ last.op = "cleanup"
    /\ last.alive
    /\ last.events = <<"SIGKILL">>
    /\ last.err = "none"
    /\ local_node.cleaned
    /\ local_node.child = "running"

(***************************************************************************)
(* Further claims about the registry remote_nodes, under SpecRemote         *)
(***************************************************************************)
\* The positions of a thread past remote_nodes.append at cluster.py:904
GRegistered == {"appended", "start_raised", "started"}

\* The positions of a thread inside one of the two with blocks
GInsideLock == {"ctor_locked", "ctor_flag", "ctor_release", "append_locked"}

\* C32: whatever the interleaving of the threads that start remote nodes, the
\* registry holds each handle whose registration has ended exactly once and no
\* other handle; the lock is held by exactly the thread that is inside a with
\* block, so no two threads are inside one together; and the exit hook reads
\* the registry only when no thread holds the lock.
C32_RegisteredExactlyOnce ==
    /\ [](\A m \in Machines : (gpc[m] \in GRegistered) <=> (m \in Range(remote_nodes)))
    /\ [](Cardinality(Range(remote_nodes)) = Len(remote_nodes))
    /\ [](\A m \in Machines : (gpc[m] \in GInsideLock) <=> (remote_nodes_lock = m))
    /\ [][(glast'.op = "atexit") =>
             /\ remote_nodes_lock = 0
             /\ \A m \in Machines : gpc[m] \notin GInsideLock
             /\ remote_nodes' = remote_nodes]_vars

\* Both threads have registered, the second machine before the first
C32_Witness ==
    /\ Len(remote_nodes) = 2
    /\ remote_nodes[1] = 2
    /\ remote_nodes[2] = 1
    /\ gpc[1] \in GRegistered
    /\ gpc[2] \in GRegistered

(***************************************************************************)
(* Key rotation: reset_validator_key, reset_node_key, remove_validator_key  *)
(***************************************************************************)
\* The key the node directory was made with, and the keys tests rotate in
Keys == {"k0", "k1", "k2"}
NewKeys == {"k1", "k2"}

\* How the file operations of one call go: all succeed; open(.., 'w+') raises;
\* open has truncated the file and json.dump raises; machine.upload raises
IoOutcomes == {"ok", "open_fails", "dump_fails", "upload_fails"}

\* The keys read from the node directory by __init__ / _upload_config_files
KeyHandle(kind) ==
    [kind |-> kind, validator_key |-> "k0", node_key |-> "k0", dir_present |-> TRUE]

\* LocalNode.reset_validator_key and GCloudNode.reset_validator_key: the
\* attribute is set, then the file is opened with 'w+' and written; a
\* GCloudNode then uploads the file
reset_validator_key(h, disk, remote, new_key, io) ==
    LET h1 == [h EXCEPT !.validator_key = new_key]
    IN  IF ~h.dir_present \/ io = "open_fails"
        THEN [h |-> h1, disk |-> disk, remote |-> remote, err |-> "OSError"]
        ELSE IF io = "dump_fails"
        THEN [h |-> h1, disk |-> [disk EXCEPT !.validator = "empty"], remote |-> remote,
              err |-> "OSError"]
        ELSE IF h.kind = "Remote" /\ io = "upload_fails"
        THEN [h |-> h1, disk |-> [disk EXCEPT !.validator = new_key], remote |-> remote,
              err |-> "RemoteError"]
        ELSE [h |-> h1, disk |-> [disk EXCEPT !.validator = new_key],
              remote |-> IF h.kind = "Remote" THEN new_key ELSE remote, err |-> "none"]

\* LocalNode.reset_node_key; GCloudNode has no such method
reset_node_key(h, disk, new_key, io) ==
    IF h.kind = "Remote"
    THEN [h |-> h, disk |-> disk, err |-> "AttributeError"]
    ELSE LET h1 == [h EXCEPT !.node_key = new_key]
         IN  IF ~h.dir_present \/ io = "open_fails"
             THEN [h |-> h1, disk |-> disk, err |-> "OSError"]
             ELSE IF io = "dump_fails"
             THEN [h |-> h1, disk |-> [disk EXCEPT !.node = "empty"], err |-> "OSError"]
             ELSE [h |-> h1, disk |-> [disk EXCEPT !.node = new_key], err |-> "none"]

NoKeyCall == [op |-> "none", new_key |-> "k0", old_key |-> "k0", io |-> "ok", err |-> "none"]

KeysInit ==
    /\ knode \in {KeyHandle("Local"), KeyHandle("Remote")}
    /\ kdisk = [validator |-> "k0", node |-> "k0"]
    /\ kremote = "k0"
    /\ klast = NoKeyCall

KeysIdle ==
    /\ knode = KeyHandle("Local")
    /\ kdisk = [validator |-> "k0", node |-> "k0"]
    /\ kremote = "k0"
    /\ klast = [NoKeyCall EXCEPT !.op = "idle"]

\* A LocalNode never uploads
ValidIo(io) == (io = "upload_fails") => (knode.kind = "Remote")

ResetValidatorKey(new_key, io) ==
    /\ klast.op # "idle"
    /\ ValidIo(io)
    /\ LET r == reset_validator_key(knode, kdisk, kremote, new_key, io)
       IN  /\ knode' = r.h
           /\ kdisk' = r.disk
           /\ kremote' = r.remote
           /\ klast' = [op |-> "reset_validator_key", new_key |-> new_key,
                        old_key |-> knode.validator_key, io |-> io, err |-> r.err]
    /\ UNCHANGED keyFrame

ResetNodeKey(new_key, io) ==
    /\ klast.op # "idle"
    /\ io # "upload_fails"
    /\ LET r == reset_node_key(knode, kdisk, new_key, io)
       IN  /\ knode' = r.h
           /\ kdisk' = r.disk
           /\ klast' = [op |-> "reset_node_key", new_key |-> new_key,
                        old_key |-> knode.node_key, io |-> io, err |-> r.err]
    /\ UNCHANGED kremote
    /\ UNCHANGED keyFrame

\* GCloudNode.cleanup renames the node directory and leaves self.node_dir as it
\* was; LocalNode.cleanup sets self.node_dir to the new name
KeyCleanup ==
    /\ klast.op # "idle"
    /\ knode.dir_present
    /\ knode' = [knode EXCEPT !.dir_present = (knode.kind = "Local")]
    /\ klast' = [NoKeyCall EXCEPT !.op = "cleanup"]
    /\ UNCHANGED <<kdisk, kremote>>
    /\ UNCHANGED keyFrame

KeysNext ==
    \/ \E new_key \in NewKeys, io \in IoOutcomes : ResetValidatorKey(new_key, io)
    \/ \E new_key \in NewKeys, io \in IoOutcomes : ResetNodeKey(new_key, io)
    \/ KeyCleanup

C16_SuccessIsConsistent ==
    /\ (klast.op = "reset_validator_key" /\ klast.err = "none") =>
           (knode.validator_key = klast.new_key /\ kdisk.validator = klast.new_key)
    /\ (klast.op = "reset_node_key" /\ klast.err = "none") =>
           (knode.node_key = klast.new_key /\ kdisk.node = klast.new_key)

(***************************************************************************)
(* init_cluster: the localnet subprocess, the node directories it lists,    *)
(* the patching of their files; and what start_cluster does with the result *)
(***************************************************************************)
MaxRequested == 3
MaxReturnCode == 1

\* A child ended by a signal has a negative returncode
ReturnCodes == (0 - 1)..MaxReturnCode

TopoInit ==
    /\ test0_exists \in BOOLEAN
    /\ requested \in 1..MaxRequested
    /\ extra_state_dumper \in BOOLEAN
    /\ topoPc = "begin"
    /\ returncode = 0
    /\ listed = 0
    /\ patchIdx = 1
    /\ patched = [i \in 1..(MaxRequested + 1) |-> {}]
    /\ returned = 0 - 1
    /\ startedNodes = 0
    /\ topoErr = "none"

TopoIdle ==
    /\ test0_exists = FALSE
    /\ requested = 1
    /\ extra_state_dumper = FALSE
    /\ topoPc = "idle"
    /\ returncode = 0
    /\ listed = 0
    /\ patchIdx = 1
    /\ patched = [i \in 1..(MaxRequested + 1) |-> {}]
    /\ returned = 0 - 1
    /\ startedNodes = 0
    /\ topoErr = "none"

\* start_cluster with ~/.near/test0 there: the directories are listed and
\* init_cluster is not called
TopoReuse(found) ==
    /\ topoPc = "begin"
    /\ test0_exists
    /\ listed' = found
    /\ returned' = found
    /\ topoPc' = "returned"
    /\ UNCHANGED <<test0_exists, requested, extra_state_dumper, returncode, patchIdx,
                   patched, startedNodes, topoErr>>
    /\ UNCHANGED topoFrame

\* subprocess.Popen([binary_path, "localnet", ...]) and process.communicate()
TopoRun(code, lines) ==
    /\ topoPc = "begin"
    /\ ~test0_exists
    /\ returncode' = code
    /\ listed' = lines
    /\ topoPc' = "ran"
    /\ UNCHANGED <<test0_exists, requested, extra_state_dumper, patchIdx, patched,
                   returned, startedNodes, topoErr>>
    /\ UNCHANGED topoFrame

\* The returncode is not looked at
ReturncodeIgnored == TRUE

\* assert 0 == process.returncode, err
ReturncodeAccepted == 0 = returncode

\* The two asserts after communicate(): on the returncode, and on the number of
\* node directories found in stderr
TopoAssert ==
    /\ topoPc = "ran"
    /\ IF ReturncodeAccepted /\ listed = requested
       THEN topoPc' = "state_sync" /\ UNCHANGED topoErr
       ELSE topoPc' = "failed" /\ topoErr' = "AssertionError"
    /\ UNCHANGED <<test0_exists, requested, extra_state_dumper, returncode, listed,
                   patchIdx, patched, returned, startedNodes>>
    /\ UNCHANGED topoFrame

\* With extra_state_dumper, the state sync configs are applied to config.json
\* of every directory before the loop
TopoStateSync(configOk) ==
    /\ topoPc = "state_sync"
    /\ IF extra_state_dumper /\ ~configOk
       THEN /\ topoPc' = "failed" /\ topoErr' = "ValueError"
            /\ UNCHANGED patched
       ELSE /\ topoPc' = "patching"
            /\ patched' = [i \in DOMAIN patched |->
                              IF extra_state_dumper /\ i <= listed
                              THEN patched[i] \cup {"config.json"} ELSE patched[i]]
            /\ UNCHANGED topoErr
    /\ UNCHANGED <<test0_exists, requested, extra_state_dumper, returncode, listed,
                   patchIdx, returned, startedNodes>>
    /\ UNCHANGED topoFrame

\* One turn of the loop at cluster.py:995: apply_genesis_changes, then
\* apply_config_changes when the node has overrides; either can raise
TopoPatch(genesisOk, hasOverrides, configOk) ==
    /\ topoPc = "patching"
    /\ patchIdx <= listed
    /\ IF ~genesisOk
       THEN /\ topoPc' = "failed" /\ topoErr' = "AssertionError"
            /\ UNCHANGED <<patched, patchIdx>>
       ELSE IF hasOverrides /\ ~configOk
       THEN /\ topoPc' = "failed" /\ topoErr' = "ValueError"
            /\ patched' = [patched EXCEPT ![patchIdx] = @ \cup {"genesis.json"}]
            /\ UNCHANGED patchIdx
       ELSE /\ patched' = [patched EXCEPT ![patchIdx] =
                              @ \cup {"genesis.json"}
                                \cup (IF hasOverrides THEN {"config.json"} ELSE {})]
            /\ patchIdx' = patchIdx + 1
            /\ UNCHANGED <<topoPc, topoErr>>
    /\ UNCHANGED <<test0_exists, requested, extra_state_dumper, returncode, listed,
                   returned, startedNodes>>
    /\ UNCHANGED topoFrame

\* The loop at cluster.py:1006 (configure_cold_storage_for_archival_node writes
\* config.json of the nodes marked archival), and return near_root, node_dirs
TopoReturn(archival) ==
    /\ topoPc = "patching"
    /\ patchIdx > listed
    /\ archival \subseteq 1..listed
    /\ patched' = [i \in DOMAIN patched |->
                      IF i \in archival THEN patched[i] \cup {"config.json"} ELSE patched[i]]
    /\ returned' = listed
    /\ topoPc' = "returned"
    /\ UNCHANGED <<test0_exists, requested, extra_state_dumper, returncode, listed,
                   patchIdx, startedNodes, topoErr>>
    /\ UNCHANGED topoFrame

\* start_cluster goes on with the directories it was given: one node each
TopoStartNodes ==
    /\ topoPc = "returned"
    /\ startedNodes' = returned
    /\ topoPc' = "started"
    /\ UNCHANGED <<test0_exists, requested, extra_state_dumper, returncode, listed,
                   patchIdx, patched, returned, topoErr>>
    /\ UNCHANGED topoFrame

TopoNext ==
    \/ \E found \in 1..MaxRequested : TopoReuse(found)
    \/ \E code \in ReturnCodes, lines \in 0..(MaxRequested + 1) : TopoRun(code, lines)
    \/ TopoAssert
    \/ \E configOk \in BOOLEAN : TopoStateSync(configOk)
    \/ \E genesisOk, hasOverrides, configOk \in BOOLEAN :
          TopoPatch(genesisOk, hasOverrides, configOk)
    \/ \E archival \in SUBSET (1..MaxRequested) : TopoReturn(archival)
    \/ TopoStartNodes

\* C20: when the localnet subprocess has ended with a returncode other than 0,
\* the next step of init_cluster is its failure with AssertionError; no list of
\* node directories is returned, no genesis.json or config.json is written and
\* no node is started.
C20_NonZeroReturncodeIsFatal ==
    /\ [][(topoPc = "ran" /\ returncode # 0) =>
             (topoPc' = "failed" /\ topoErr' = "AssertionError")]_vars
    /\ []((topoPc # "begin" /\ ~test0_exists /\ returncode # 0) =>
             /\ topoPc \in {"ran", "failed"}
             /\ returned = 0 - 1
             /\ \A i \in DOMAIN patched : patched[i] = {}
             /\ startedNodes = 0)

\* The subprocess ended with a returncode other than 0 after it had listed as
\* many directories as were asked for, and init_cluster has failed
C20_Witness ==
    /\ topoPc = "failed"
    /\ returncode # 0
    /\ listed = requested
    /\ topoErr = "AssertionError"
    /\ returned = 0 - 1

(***************************************************************************)
(* change_config of the three handle classes, and                           *)
(* configure_cold_storage_for_archival_node, on one config.json             *)
(*                                                                         *)
(* JSON false and true are the scalars 0 and 1 (False == 0 and True == 1 in *)
(* Python, with the same truth value); the string "cold-data" is scalar 2.  *)
(***************************************************************************)
Null == [t |-> "null"]
JsonTrue == S1
cold_data == S2

\* bool(x) of a value read from JSON
Truthy(x) ==
    IF x = Null THEN FALSE
    ELSE IF IsObj(x) THEN DOMAIN x.f # {}
    ELSE IF IsArr(x) THEN x.e # <<>>
    ELSE x.v # 0

\* config_json.get(key, default)
DictGet(d, key, default) == IF key \in DOMAIN d THEN d[key] ELSE default

\* The block written at cluster.py:1039-1049
Duration == Obj("secs" :> S0 @@ "nanos" :> Scalar(100000000))
split_storage_default ==
    Obj("enable_split_storage_view_client" :> JsonTrue
        @@ "cold_store_initial_migration_loop_sleep_duration" :> Duration
        @@ "cold_store_loop_sleep_duration" :> Duration)

\* Variant: the test on cold_store is left out
SkipsUnlessArchive(config_json) == ~Truthy(DictGet(config_json, "archive", S0))

\* The test at cluster.py:1024-1025: not an archival node, or cold storage is
\* already configured
SkipsColdStorage(config_json) ==
    \/ ~Truthy(DictGet(config_json, "archive", S0))
    \/ DictGet(config_json, "cold_store", Null) # Null

\* copy.deepcopy(hot_store_config) with cold_store_config["path"] = "cold-data"
ColdStoreOf(hot_store_config) == Obj(DictSet(hot_store_config.f, "path", cold_data))

\* configure_cold_storage_for_archival_node on the file: [err, content]
configure_cold_storage_for_archival_node(content) ==
    IF ~JsonLoads(content)
    THEN [err |-> "JSONDecodeError", content |-> content]
    ELSE LET config_json == JsonLoad(content).f
             hot_store_config == DictGet(config_json, "store", Null)
         IN  IF SkipsColdStorage(config_json)
             THEN [err |-> "none", content |-> content]
             ELSE IF hot_store_config = Null
             THEN [err |-> "AssertionError", content |-> content]
             ELSE IF ~IsObj(hot_store_config)
             THEN [err |-> "TypeError", content |-> content]
             ELSE LET with_cold == DictSet(config_json, "cold_store",
                                           ColdStoreOf(hot_store_config))
                      with_trie == DictSet(with_cold, "save_trie_changes", JsonTrue)
                      with_split ==
                          IF "split_storage" \notin DOMAIN with_trie
                          THEN DictSet(with_trie, "split_storage", split_storage_default)
                          ELSE with_trie
                  IN  [err |-> "none", content |-> WriteJson(content, Obj(with_split))]

\* Variant: every class applies the overrides
change_configEverywhere(kind, content, overrides) == apply_config_changes(content, overrides)

\* BaseNode.change_config raises; LocalNode.change_config alone overrides it
change_config(kind, content, overrides) ==
    IF kind = "LocalNode"
    THEN apply_config_changes(content, overrides)
    ELSE [err |-> "NotImplementedError", content |-> content]

\* ---- the handles, documents and overrides the calls are tried on ----
HandleClasses == {"LocalNode", "GCloudNode", "RpcNode"}

NcArchiveValues == {Absent, Null, S0, JsonTrue}
NcColdStoreValues == {Absent, Null, Obj("path" :> cold_data)}
NcStoreValues ==
    {Absent, Null, S0, Obj("path" :> S0), Obj("path" :> S0 @@ "state_snapshot_config" :> S0)}
NcSplitValues == {Absent, Obj("enable_split_storage_view_client" :> S0)}

NcDocOf(a, c, st, sp) ==
    LET all == "archive" :> a @@ "cold_store" :> c @@ "store" :> st @@ "split_storage" :> sp
        keys == {x \in DOMAIN all : all[x] # Absent}
    IN  Obj([x \in keys |-> all[x]])

NcDocs ==
    { NcDocOf(a, c, st, sp) : a \in NcArchiveValues, c \in NcColdStoreValues,
                              st \in NcStoreValues, sp \in NcSplitValues }

NcOverrides ==
    { <<>>,
      <<[k |-> <<"archive">>, v |-> JsonTrue]>>,
      <<[k |-> <<"store">>, v |-> Obj("path" :> S1)]>>,
      <<[k |-> <<"unknown_option">>, v |-> S1]>> }

NodeConfigInit ==
    /\ ncKind \in HandleClasses
    /\ ncDisk \in {<<d>> : d \in NcDocs}
    /\ ncLast = [op |-> "none"]

NodeConfigIdle ==
    /\ ncKind = "LocalNode"
    /\ ncDisk = <<>>
    /\ ncLast = [op |-> "idle"]

\* node.change_config(overrides)
ChangeConfig(overrides) ==
    /\ LET r == change_config(ncKind, ncDisk, overrides) IN
       /\ ncDisk' = r.content
       /\ ncLast' = [op |-> "change_config", overrides |-> overrides, err |-> r.err]
    /\ UNCHANGED ncKind
    /\ UNCHANGED ncFrame

\* configure_cold_storage_for_archival_node(node_dir)
ConfigureColdStorage ==
    /\ LET r == configure_cold_storage_for_archival_node(ncDisk) IN
       /\ ncDisk' = r.content
       /\ ncLast' = [op |-> "configure_cold_storage", overrides |-> <<>>, err |-> r.err]
    /\ UNCHANGED ncKind
    /\ UNCHANGED ncFrame

NodeConfigNext ==
    \/ \E overrides \in NcOverrides : ChangeConfig(overrides)
    \/ ConfigureColdStorage

(***************************************************************************)
(* Claims about change_config and the cold storage synthesis, under         *)
(* SpecNodeConfig                                                           *)
(***************************************************************************)
NcBefore == JsonLoad(ncDisk).f
NcAfter == JsonLoad(ncDisk').f
ColdStorageStep == ncLast'.op = "configure_cold_storage"

\* cold is hot with only the path changed
OnlyPathChanged(hot, cold) ==
    /\ IsObj(cold)
    /\ DOMAIN cold.f = DOMAIN hot.f \cup {"path"}
    /\ cold.f["path"] = cold_data
    /\ \A x \in DOMAIN hot.f \ {"path"} : cold.f[x] = hot.f[x]

\* archive has a true value, cold_store is absent or null
NeedsColdStore(doc) ==
    /\ "archive" \in DOMAIN doc
    /\ doc["archive"] \notin {S0, Null}
    /\ "cold_store" \in DOMAIN doc => doc["cold_store"] = Null

\* C24 as the spec has it: the file is unchanged when archive is false or
\* absent or cold_store is present; in every other case a cold_store block
\* is added that is the store block with only the path changed, and
\* save_trie_changes is set.  (null counts as absent here.)
C24_AsClaimed ==
    [][ColdStorageStep =>
          IF ~NeedsColdStore(NcBefore)
          THEN ncDisk' = ncDisk
          ELSE /\ ncLast'.err = "none"
               /\ "cold_store" \in DOMAIN NcAfter
               /\ NcAfter["cold_store"] # Null
               /\ NcAfter["save_trie_changes"] = JsonTrue]_vars

\* C24: configure_cold_storage_for_archival_node returns without writing when
\* archive is absent, false or null, or when cold_store is present and not
\* null.  Otherwise, when store is an object, it writes the document with
\* cold_store = the store block with only the path changed to "cold-data",
\* save_trie_changes = true, split_storage as it was or the default block when
\* it was absent, and every other key as it was; when store is absent, null or
\* not an object it raises (AssertionError, TypeError) and the file is as it
\* was.  A second run after a run that returned changes nothing.
C24_ColdStoreSynthesis ==
    /\ [][(ColdStorageStep /\ ~NeedsColdStore(NcBefore)) =>
             (ncDisk' = ncDisk /\ ncLast'.err = "none")]_vars
    /\ [][(ColdStorageStep /\ NeedsColdStore(NcBefore)
             /\ "store" \in DOMAIN NcBefore /\ IsObj(NcBefore["store"])) =>
             /\ ncLast'.err = "none"
             /\ DOMAIN NcAfter =
                   DOMAIN NcBefore \cup {"cold_store", "save_trie_changes", "split_storage"}
             /\ OnlyPathChanged(NcBefore["store"], NcAfter["cold_store"])
             /\ NcAfter["save_trie_changes"] = JsonTrue
             /\ NcAfter["split_storage"] =
                   (IF "split_storage" \in DOMAIN NcBefore
                    THEN NcBefore["split_storage"] ELSE split_storage_default)
             /\ \A x \in DOMAIN NcBefore \ {"cold_store", "save_trie_changes"} :
                   NcAfter[x] = NcBefore[x]]_vars
    /\ [][(ColdStorageStep /\ NeedsColdStore(NcBefore)
             /\ ~("store" \in DOMAIN NcBefore /\ IsObj(NcBefore["store"]))) =>
             /\ ncDisk' = ncDisk
             /\ ncLast'.err =
                   (IF "store" \notin DOMAIN NcBefore \/ NcBefore["store"] = Null
                    THEN "AssertionError" ELSE "TypeError")]_vars
    /\ [][(ncLast.op = "configure_cold_storage" /\ ncLast.err = "none" /\ ColdStorageStep) =>
             (ncDisk' = ncDisk /\ ncLast'.err = "none")]_vars

\* An archival node whose store block has two fields: the cold store has been
\* written next to it, split_storage was there and is as it was
C24_Witness ==
    /\ ncLast.op = "configure_cold_storage"
    /\ ncLast.err = "none"
    /\ {"archive", "store", "cold_store", "split_storage"} \subseteq DOMAIN JsonLoad(ncDisk).f
    /\ JsonLoad(ncDisk).f["archive"] = JsonTrue
    /\ JsonLoad(ncDisk).f["store"] = Obj("path" :> S0 @@ "state_snapshot_config" :> S0)
    /\ JsonLoad(ncDisk).f["cold_store"] =
          Obj("path" :> cold_data @@ "state_snapshot_config" :> S0)
    /\ JsonLoad(ncDisk).f["split_storage"] = Obj("enable_split_storage_view_client" :> S0)

\* C25: change_config on a GCloudNode or an RpcNode raises NotImplementedError
\* and leaves config.json as it was, whatever the overrides; on a LocalNode
\* it goes through apply_config_changes on config.json of the node: a call
\* that returns has set every one-segment key of the overrides that has a
\* scalar value to that value, and a call that raises has raised ValueError
\* or AttributeError, never NotImplementedError.
C25_ChangeConfigByClass ==
    /\ [][(ncLast'.op = "change_config" /\ ncKind # "LocalNode") =>
             (ncLast'.err = "NotImplementedError" /\ ncDisk' = ncDisk)]_vars
    /\ [][(ncLast'.op = "change_config" /\ ncKind = "LocalNode") =>
             /\ ncLast'.err \in {"none", "ValueError", "AttributeError"}
             /\ ncLast'.err # "none" => ncDisk' = ncDisk
             /\ ncLast'.err = "none" =>
                   \A j \in DOMAIN ncLast'.overrides :
                      LET o == ncLast'.overrides[j] IN
                      (Len(o.k) = 1 /\ ~IsObj(o.v)) => NcAfter[o.k[1]] = o.v]_vars

\* change_config with an override has raised on an RpcNode
C25_Witness ==
    /\ ncKind = "RpcNode"
    /\ ncLast.op = "change_config"
    /\ ncLast.overrides # <<>>
    /\ ncLast.err = "NotImplementedError"

\* change_config has set archive on a LocalNode
C25_LocalWitness ==
    /\ ncKind = "LocalNode"
    /\ ncLast.op = "change_config"
    /\ ncLast.err = "none"
    /\ ncLast.overrides # <<>>
    /\ ncLast.overrides[1].k = <<"archive">>
    /\ "archive" \in DOMAIN JsonLoad(ncDisk).f
    /\ JsonLoad(ncDisk).f["archive"] = JsonTrue

(***************************************************************************)
(* start_cluster on a local configuration: the node directories it takes    *)
(* from disk or from init_cluster, the patching of genesis.json and         *)
(* config.json of each, and the handles it returns.                         *)
(*                                                                         *)
(* A directory name is kept as its parts: prefix, number and suffix.  The   *)
(* nodes are started one after the other here; their interleavings are      *)
(* those of SpecCluster.                                                    *)
(***************************************************************************)
MaxValidators == 2
MaxObservers == 1

\* DEFAULT_CLIENT_CONFIG_OVERRIDES
DEFAULT_CLIENT_CONFIG_OVERRIDES == <<[k |-> <<"save_tx_outcomes">>, v |-> JsonTrue]>>

\* The pair of documents of state_sync_lib.get_state_sync_configs_pair, each
\* kept as one value of the key state_sync
node_config_dump == <<[k |-> <<"state_sync">>, v |-> S1]>>
node_config_sync == <<[k |-> <<"state_sync">>, v |-> S0]>>

\* name.startswith('test') and not name.endswith('_finished')
DirName(prefix, n, suffix) == [prefix |-> prefix, n |-> n, suffix |-> suffix]
IsNodeDirName(name) == name.prefix = "test" /\ name.suffix # "_finished"

\* os.listdir(dot_near): the names there, in arbitrary order
Listdir(names) ==
    { s \in [1..Cardinality(names) -> names] : \A a, b \in DOMAIN s : a # b => s[a] # s[b] }

\* The files neard localnet writes into each directory it generates
PvGenesisDoc == GenesisDocOf(S0, Arr(<<Validator>>))
PvConfigDoc == DocOf(Absent, S0, Obj("path" :> S0))
FreshFiles == [genesis |-> <<PvGenesisDoc>>, config |-> <<PvConfigDoc>>]

\* neard localnet --validators num_nodes --non-validators num_observers: the
\* directories test0 .. test<n-1>, emitted in that order
Generated(n) == [j \in 1..n |-> DirName("test", j - 1, "")]

\* Variant: the extra state dumper is not counted
NumDirsWithoutDumper(args) == args.num_nodes + args.num_observers

\* num_nodes + num_observers after cluster.py:943-944
NumDirs(args) ==
    args.num_nodes + args.num_observers + (IF args.extra_state_dumper THEN 1 ELSE 0)

\* Variant: every node gets the default overrides
OverridesAlwaysDefault(client_config_changes, i) == DEFAULT_CLIENT_CONFIG_OVERRIDES

\* Variant: every node gets the overrides of the entry of ordinal 0
OverridesOfBootNode(client_config_changes, i) ==
    IF 0 \in DOMAIN client_config_changes
    THEN client_config_changes[0]
    ELSE DEFAULT_CLIENT_CONFIG_OVERRIDES

\* client_config_changes.get(i, DEFAULT_CLIENT_CONFIG_OVERRIDES)
OverridesFor(client_config_changes, i) ==
    IF i \in DOMAIN client_config_changes
    THEN client_config_changes[i]
    ELSE DEFAULT_CLIENT_CONFIG_OVERRIDES

\* ---- the arguments and disks start_cluster is tried on ----
PvChangeLists ==
    { <<>>,
      << <<Key("epoch_length"), S1>> >>,
      << <<Key("protocol_version"), S1>> >> }

PvOverrideChoices ==
    { <<>>,
      <<[k |-> <<"tracked_shards_config">>, v |-> S1]>>,
      <<[k |-> <<"archive">>, v |-> JsonTrue]>>,
      <<[k |-> <<"unknown_option">>, v |-> S1]>> }

PvClientConfigChanges == UNION { [D -> PvOverrideChoices] : D \in SUBSET {0, 1} }

PvArgs ==
    [num_nodes : 1..MaxValidators, num_observers : 0..MaxObservers,
     extra_state_dumper : BOOLEAN, genesis_config_changes : PvChangeLists,
     client_config_changes : PvClientConfigChanges]

PvStaleNames == {DirName("test", 0, ""), DirName("test", 1, ""), DirName("test", 0, "_finished")}
PvDisks ==
    { [name \in D |-> FreshFiles] :
        D \in {{}} \cup {E \in SUBSET PvStaleNames : DirName("test", 0, "") \in E} }

ProvInit ==
    /\ pvArgs \in PvArgs
    /\ pvPc = "begin"
    /\ pvDisk \in PvDisks
    /\ pvTest0 = (DirName("test", 0, "") \in DOMAIN pvDisk)
    /\ pvDirs = <<>>
    /\ pvIdx = 0
    /\ pvErr = "none"
    /\ pvHandles = <<>>

ProvIdle ==
    /\ pvArgs = [num_nodes |-> 0]
    /\ pvPc = "idle"
    /\ pvDisk = <<>>
    /\ pvTest0 = FALSE
    /\ pvDirs = <<>>
    /\ pvIdx = 0
    /\ pvErr = "none"
    /\ pvHandles = <<>>

\* (dot_near / 'test0').exists()
Test0Exists == DirName("test", 0, "") \in DOMAIN pvDisk

\* cluster.py:1157-1163: the directories already there are taken as they are
\* listed; init_cluster is not called
PvReuse(listing) ==
    /\ pvPc = "begin"
    /\ Test0Exists
    /\ listing \in Listdir(DOMAIN pvDisk)
    /\ pvDirs' = SelectSeq(listing, IsNodeDirName)
    /\ pvPc' = "spin"
    /\ UNCHANGED <<pvArgs, pvTest0, pvDisk, pvIdx, pvErr, pvHandles>>
    /\ UNCHANGED provFrame

\* init_cluster up to the two asserts: the subprocess has ended with code and
\* its stderr holds lines lines with '/test'
PvLocalnet(code, lines) ==
    /\ pvPc = "begin"
    /\ ~Test0Exists
    /\ pvDisk' = IF code = 0
                 THEN [name \in Range(Generated(NumDirs(pvArgs))) |-> FreshFiles]
                 ELSE pvDisk
    /\ IF code = 0 /\ lines = NumDirs(pvArgs)
       THEN /\ pvDirs' = Generated(lines)
            /\ pvPc' = IF pvArgs.extra_state_dumper THEN "state_sync" ELSE "patch"
            /\ UNCHANGED pvErr
       ELSE /\ pvPc' = "failed"
            /\ pvErr' = "AssertionError"
            /\ UNCHANGED pvDirs
    /\ UNCHANGED <<pvArgs, pvTest0, pvIdx, pvHandles>>
    /\ UNCHANGED provFrame

\* What the code at cluster.py:990-994 writes: node_config_sync into every
\* directory but the last, node_config_dump into the last
StateSyncOverrides(j) ==
    IF j = Len(pvDirs) THEN node_config_dump ELSE node_config_sync

PvStateSync ==
    /\ pvPc = "state_sync"
    /\ pvDisk' =
         [name \in DOMAIN pvDisk |->
            IF \E j \in DOMAIN pvDirs : pvDirs[j] = name
            THEN LET j == CHOOSE j \in DOMAIN pvDirs : pvDirs[j] = name IN
                 [pvDisk[name] EXCEPT
                    !.config = apply_config_changes(@, StateSyncOverrides(j)).content]
            ELSE pvDisk[name]]
    /\ pvPc' = "patch"
    /\ UNCHANGED <<pvArgs, pvTest0, pvDirs, pvIdx, pvErr, pvHandles>>
    /\ UNCHANGED provFrame

\* One turn of the loop at cluster.py:997 for i = pvIdx: apply_genesis_changes,
\* then apply_config_changes when the overrides of i are not empty
PvPatch ==
    /\ pvPc = "patch"
    /\ pvIdx < Len(pvDirs)
    /\ LET node_dir == pvDirs[pvIdx + 1]
           g == apply_genesis_changes(pvDisk[node_dir].genesis,
                                      pvArgs.genesis_config_changes)
           overrides == OverridesFor(pvArgs.client_config_changes, pvIdx)
           c == IF g.err = "none" /\ overrides # <<>>
                THEN apply_config_changes(pvDisk[node_dir].config, overrides)
                ELSE [err |-> "none", content |-> pvDisk[node_dir].config]
       IN  /\ pvDisk' = [pvDisk EXCEPT ![node_dir] =
                            [genesis |-> g.content, config |-> c.content]]
           /\ IF g.err # "none"
              THEN pvErr' = g.err /\ pvPc' = "failed" /\ UNCHANGED pvIdx
              ELSE IF c.err # "none"
              THEN pvErr' = c.err /\ pvPc' = "failed" /\ UNCHANGED pvIdx
              ELSE IF pvIdx + 1 = Len(pvDirs)
              THEN pvPc' = "cold_storage" /\ pvIdx' = 0 /\ UNCHANGED pvErr
              ELSE pvIdx' = pvIdx + 1 /\ UNCHANGED <<pvPc, pvErr>>
    /\ UNCHANGED <<pvArgs, pvTest0, pvDirs, pvHandles>>
    /\ UNCHANGED provFrame

\* One turn of the loop at cluster.py:1006 for i = pvIdx; after the last one
\* init_cluster returns near_root, node_dirs
PvColdStorage ==
    /\ pvPc = "cold_storage"
    /\ pvIdx < Len(pvDirs)
    /\ LET node_dir == pvDirs[pvIdx + 1]
           r == configure_cold_storage_for_archival_node(pvDisk[node_dir].config)
       IN  /\ pvDisk' = [pvDisk EXCEPT ![node_dir].config = r.content]
           /\ IF r.err # "none"
              THEN pvErr' = r.err /\ pvPc' = "failed" /\ UNCHANGED pvIdx
              ELSE IF pvIdx + 1 = Len(pvDirs)
              THEN pvPc' = "returned" /\ pvIdx' = 0 /\ UNCHANGED pvErr
              ELSE pvIdx' = pvIdx + 1 /\ UNCHANGED <<pvPc, pvErr>>
    /\ UNCHANGED <<pvArgs, pvTest0, pvDirs, pvHandles>>
    /\ UNCHANGED provFrame

\* start_cluster has node_dirs from init_cluster
PvInitReturned ==
    /\ pvPc = "returned"
    /\ pvPc' = "spin"
    /\ UNCHANGED <<pvArgs, pvTest0, pvDisk, pvDirs, pvIdx, pvErr, pvHandles>>
    /\ UNCHANGED provFrame

\* spin_up_node(config, near_root, node_dirs[i], ordinal=i, ...) for the next i
PvSpinUp ==
    /\ pvPc = "spin"
    /\ Len(pvHandles) < Len(pvDirs)
    /\ LET i == Len(pvHandles) IN
       pvHandles' = Append(pvHandles, LocalNode(i, pvDirs[i + 1]))
    /\ UNCHANGED <<pvArgs, pvTest0, pvPc, pvDisk, pvDirs, pvIdx, pvErr>>
    /\ UNCHANGED provFrame

\* return nodes
PvReturn ==
    /\ pvPc = "spin"
    /\ Len(pvHandles) = Len(pvDirs)
    /\ pvPc' = "done"
    /\ UNCHANGED <<pvArgs, pvTest0, pvDisk, pvDirs, pvIdx, pvErr, pvHandles>>
    /\ UNCHANGED provFrame

ProvNext ==
    \/ \E listing \in Listdir(DOMAIN pvDisk) : PvReuse(listing)
    \/ \E code \in {0, 1}, lines \in 0..(MaxValidators + MaxObservers + 2) :
          PvLocalnet(code, lines)
    \/ PvStateSync
    \/ PvPatch
    \/ PvColdStorage
    \/ PvInitReturned
    \/ PvSpinUp
    \/ PvReturn

(***************************************************************************)
(* Claims about provisioning, under SpecProvision                           *)
(***************************************************************************)
\* num_validators + num_observers, one more with the extra state dumper
PvExpectedDirs ==
    pvArgs.num_nodes + pvArgs.num_observers + (IF pvArgs.extra_state_dumper THEN 1 ELSE 0)

\* A genesis change whose key is not in the generated genesis.json
PvInvalidGenesis ==
    \E j \in DOMAIN pvArgs.genesis_config_changes :
        LET c == pvArgs.genesis_config_changes[j] IN
        ChangeNav(c) = <<>> /\ ChangeKey(c).s \notin DOMAIN PvGenesisDoc.f

\* An override of node i whose key is neither in the generated config.json nor
\* in the allow-list
PvInvalidOverride(i) ==
    /\ i \in DOMAIN pvArgs.client_config_changes
    /\ \E j \in DOMAIN pvArgs.client_config_changes[i] :
          LET k == pvArgs.client_config_changes[i][j].k IN
          k \notin allowed_missing_configs /\ k[1] \notin DOMAIN PvConfigDoc.f

PvInvalid ==
    PvInvalidGenesis \/ \E i \in 0..(PvExpectedDirs - 1) : PvInvalidOverride(i)

\* C21 as the spec has it: with an invalid genesis change or an invalid
\* override of one of the nodes, no node is ever started.
C21_AsClaimed == PvInvalid => (pvHandles = <<>> /\ pvPc \notin {"spin", "done"})

\* C21: when ~/.near/test0 is not there, so that the cluster is provisioned,
\* an invalid genesis change or an invalid override of one of the nodes makes
\* the turn of the patch loop that meets it fail (AssertionError for the
\* genesis change, ValueError for the override); init_cluster never returns
\* and no node of any ordinal is started.  When ~/.near/test0 is there, nothing
\* is patched or validated and start_cluster does not fail on it.
C21_ProvisioningFailsBeforeAnyStart ==
    /\ []((~pvTest0 /\ PvInvalid) =>
             /\ pvHandles = <<>>
             /\ pvPc \in {"begin", "state_sync", "patch", "failed"})
    /\ [][(pvPc = "patch" /\ (PvInvalidGenesis \/ PvInvalidOverride(pvIdx))) =>
             /\ pvPc' = "failed"
             /\ pvErr' = (IF PvInvalidGenesis THEN "AssertionError" ELSE "ValueError")
             /\ pvHandles' = <<>>]_vars
    /\ [](pvTest0 => (pvPc # "failed" /\ pvErr = "none"))

\* The override of node 1 is invalid: the loop has patched node 0 and has
\* failed on node 1
C21_Witness ==
    /\ ~pvTest0
    /\ ~PvInvalidGenesis
    /\ ~PvInvalidOverride(0)
    /\ PvInvalidOverride(1)
    /\ PvExpectedDirs >= 2
    /\ pvPc = "failed"
    /\ pvErr = "ValueError"
    /\ pvIdx = 1
    /\ pvHandles = <<>>

\* The document in a file of the i-th node directory
PvConfigOf(i) == JsonLoad(pvDisk[pvDirs[i + 1]].config).f
PvGenesisOf(i) == JsonLoad(pvDisk[pvDirs[i + 1]].genesis).f

\* The one-segment keys the entry of node i sets
PvKeysSetFor(i) ==
    IF i \in DOMAIN pvArgs.client_config_changes
    THEN {pvArgs.client_config_changes[i][j].k[1] :
            j \in DOMAIN pvArgs.client_config_changes[i]}
    ELSE {}

\* C27: when init_cluster returns, every genesis.json holds the same document,
\* with each genesis change in it; config.json of node i holds every override
\* of the entry of i when the mapping has one, and save_tx_outcomes = true if
\* and only if the mapping has no entry for i; a key that only the entries of
\* other ordinals set is in config.json of node i as the binary generated it.
C27_PerOrdinalOverrides ==
    pvPc = "returned" =>
      \A i \in 0..(Len(pvDirs) - 1) :
        /\ PvGenesisOf(i) = PvGenesisOf(0)
        /\ \A j \in DOMAIN pvArgs.genesis_config_changes :
              LET c == pvArgs.genesis_config_changes[j] IN
              PvGenesisOf(i)[ChangeKey(c).s] = ChangeValue(c)
        /\ ("save_tx_outcomes" \in DOMAIN PvConfigOf(i))
              <=> (i \notin DOMAIN pvArgs.client_config_changes)
        /\ ("save_tx_outcomes" \in DOMAIN PvConfigOf(i))
              => PvConfigOf(i)["save_tx_outcomes"] = JsonTrue
        /\ i \in DOMAIN pvArgs.client_config_changes =>
              \A j \in DOMAIN pvArgs.client_config_changes[i] :
                 LET e == pvArgs.client_config_changes[i][j] IN
                 PvConfigOf(i)[e.k[1]] = e.v
        /\ \A key \in {"archive", "tracked_shards_config"} \ PvKeysSetFor(i) :
              /\ (key \in DOMAIN PvConfigOf(i)) <=> (key \in DOMAIN PvConfigDoc.f)
              /\ (key \in DOMAIN PvConfigOf(i)) => PvConfigOf(i)[key] = PvConfigDoc.f[key]

\* Two nodes or more, a genesis change, an entry with an override for node 0
\* and none for node 1
C27_Witness ==
    /\ pvPc = "returned"
    /\ Len(pvDirs) >= 2
    /\ pvArgs.genesis_config_changes # <<>>
    /\ 0 \in DOMAIN pvArgs.client_config_changes
    /\ 1 \notin DOMAIN pvArgs.client_config_changes
    /\ pvArgs.client_config_changes[0] # <<>>
    /\ "tracked_shards_config" \in PvKeysSetFor(0)
    /\ PvConfigOf(0)["tracked_shards_config"] # PvConfigOf(1)["tracked_shards_config"]

C29_AsClaimed ==
    \A j \in DOMAIN pvHandles :
        pvHandles[j].node_dir = DirName("test", pvHandles[j].ordinal, "")

\* What holds: in a run that provisions the cluster, the handle of ordinal i
\* runs on test<i>
C29_HoldsWhenProvisioned == ~pvTest0 => C29_AsClaimed

\* C26 as the spec has it: the ports of ordinal i are base + 10 * (i + 1).
C26_AsClaimed ==
    \A j \in DOMAIN pvHandles :
        /\ pvHandles[j].port = P2pBasePort + PortOffset * (pvHandles[j].ordinal + 1)
        /\ pvHandles[j].rpc_port = RpcBasePort + PortOffset * (pvHandles[j].ordinal + 1)

\* C26: the handle of ordinal i has the p2p port 24567 + 10 + i and the RPC
\* port 3030 + 10 + i; no two handles of a cluster share a port, and a handle
\* keeps its ports once it is made.
C26_PortsByOrdinal ==
    /\ [](\A j \in DOMAIN pvHandles :
             /\ pvHandles[j].ordinal = j - 1
             /\ pvHandles[j].port = P2pBasePort + PortOffset + (j - 1)
             /\ pvHandles[j].rpc_port = RpcBasePort + PortOffset + (j - 1))
    /\ [](\A a, b \in DOMAIN pvHandles :
             /\ a # b => pvHandles[a].port # pvHandles[b].port
             /\ a # b => pvHandles[a].rpc_port # pvHandles[b].rpc_port
             /\ pvHandles[a].port # pvHandles[b].rpc_port)
    /\ [][\A j \in DOMAIN pvHandles :
             /\ j \in DOMAIN pvHandles'
             /\ pvHandles'[j].port = pvHandles[j].port
             /\ pvHandles'[j].rpc_port = pvHandles[j].rpc_port]_vars

\* The handles of ordinals 0, 1 and 2 are made: ports 24577, 24578 and 24579
C26_Witness ==
    /\ Len(pvHandles) >= 3
    /\ pvHandles[1].port = P2pBasePort + PortOffset
    /\ pvHandles[2].port = pvHandles[1].port + 1
    /\ pvHandles[3].rpc_port = pvHandles[1].rpc_port + 2

(***************************************************************************)
(* nretry(fn, timeout) against a clock.  Time is counted in ticks; fn takes *)
(* any number of ticks and time.sleep(delay), with delay > 0, at least one. *)
(***************************************************************************)
MaxTimeout == 4
MaxAdvance == 2

RetryInit ==
    /\ rtPc = "call"
    /\ rtTimeout \in 0..MaxTimeout
    /\ rtElapsed = 0
    /\ rtCalls = 0
    /\ rtSleeps = 0
    /\ rtFailedAt = 0 - 1

RetryIdle ==
    /\ rtPc = "idle"
    /\ rtTimeout = 0
    /\ rtElapsed = 0
    /\ rtCalls = 0
    /\ rtSleeps = 0
    /\ rtFailedAt = 0 - 1

\* Variant: the budget has to be exceeded
BudgetExceeded(elapsed, timeout) == elapsed > timeout

\* time.time() - started >= timeout
BudgetElapsed(elapsed, timeout) == elapsed >= timeout

\* try: return fn(), which takes d ticks; on an exception the test at
\* cluster.py:105 either raises it again or lets the loop go on to the sleep
RetryInvoke(ok, d) ==
    /\ rtPc = "call"
    /\ rtCalls' = rtCalls + 1
    /\ rtElapsed' = rtElapsed + d
    /\ IF ok
       THEN rtPc' = "returned" /\ UNCHANGED rtFailedAt
       ELSE /\ rtFailedAt' = rtElapsed + d
            /\ rtPc' = IF BudgetElapsed(rtElapsed + d, rtTimeout) THEN "raised" ELSE "sleep"
    /\ UNCHANGED <<rtTimeout, rtSleeps>>
    /\ UNCHANGED retryFrame

\* time.sleep(delay); delay *= 1.2, and the loop starts again
RetrySleep(d) ==
    /\ rtPc = "sleep"
    /\ rtElapsed' = rtElapsed + d
    /\ rtSleeps' = rtSleeps + 1
    /\ rtPc' = "call"
    /\ UNCHANGED <<rtTimeout, rtCalls, rtFailedAt>>
    /\ UNCHANGED retryFrame

RetryNext ==
    \/ \E ok \in BOOLEAN, d \in 0..MaxAdvance : RetryInvoke(ok, d)
    \/ \E d \in 1..MaxAdvance : RetrySleep(d)

\* C22: nretry ends only after it has invoked fn; a call of fn that succeeds
\* is the last one and ends nretry at once; a failure seen before the budget
\* has elapsed is followed by a sleep and one more call; the first failure
\* seen when the budget has elapsed ends nretry with that failure and without
\* a sleep; fn is invoked at most timeout + 1 times when every sleep takes a
\* tick or more, and nretry always ends.
C22_RetryUntilBudget ==
    /\ [](rtPc \in {"returned", "raised"} => (rtCalls >= 1 /\ rtSleeps = rtCalls - 1))
    /\ [](rtPc = "raised" => rtFailedAt >= rtTimeout)
    /\ [][rtPc = "call" =>
            /\ rtCalls' = rtCalls + 1
            /\ rtSleeps' = rtSleeps
            /\ rtPc' = "sleep" <=> (rtFailedAt' = rtElapsed' /\ rtFailedAt' # rtFailedAt
                                       /\ rtElapsed' < rtTimeout)
            /\ rtPc' = "raised" => (rtFailedAt' = rtElapsed' /\ rtElapsed' >= rtTimeout)
            /\ rtPc' = "returned" => rtFailedAt' = rtFailedAt]_vars
    /\ [][rtPc = "sleep" => (rtPc' = "call" /\ rtCalls' = rtCalls /\ rtElapsed' > rtElapsed)]_vars
    /\ [](rtCalls <= rtTimeout + 1)
    /\ (rtPc = "call") ~> (rtPc \in {"returned", "raised"})

\* A zero budget, and fn has failed once: nretry has raised without a sleep
C22_WitnessZeroBudget ==
    rtTimeout = 0 /\ rtPc = "raised" /\ rtCalls = 1 /\ rtSleeps = 0

\* Two failures before the budget has elapsed, two sleeps, then a success
C22_Witness ==
    /\ rtPc = "returned"
    /\ rtCalls = 3
    /\ rtSleeps = 2
    /\ rtFailedAt >= 0
    /\ rtFailedAt < rtTimeout

(***************************************************************************)
(* make_boot_nodes_arg on every kind of argument: None, one handle, a list  *)
(* of handles, and an iterable that is not a sequence (a generator).  The   *)
(* joined string is kept as its pieces: entry, ",", entry, ...             *)
(***************************************************************************)
MaxBootNodes == 3

BootNone == [tag |-> "None"]
BootHandle(h) == [tag |-> "node", node |-> h]
BootList(s) == [tag |-> "list", items |-> s]
BootGenerator(s) == [tag |-> "generator", items |-> s]

\* bool(boot_node): None and an empty list are false, a handle is true (BaseNode
\* defines neither __bool__ nor __len__), a generator is true even when empty
BootTruthy(boot_node) ==
    /\ boot_node.tag # "None"
    /\ ~(boot_node.tag = "list" /\ boot_node.items = <<>>)

\* cluster.py:137-140: iter(boot_node), and on TypeError iter((boot_node,))
BootIter(boot_node) ==
    IF boot_node.tag = "node" THEN <<boot_node.node>> ELSE boot_node.items

\* Variant: the entries are joined last to first
RECURSIVE JoinReversed(_, _)
JoinReversed(sep, entries) ==
    IF entries = <<>> THEN <<>>
    ELSE IF Len(entries) = 1 THEN entries
    ELSE JoinReversed(sep, Tail(entries)) \o <<sep, Head(entries)>>

\* sep.join(entries)
RECURSIVE Join(_, _)
Join(sep, entries) ==
    IF entries = <<>> THEN <<>>
    ELSE IF Len(entries) = 1 THEN entries
    ELSE <<Head(entries), sep>> \o Join(sep, Tail(entries))

\* make_boot_nodes_arg(boot_node), the whole of it; make_boot_nodes_arg above
\* is what it does on a sequence of handles
boot_nodes_arg(boot_node) ==
    IF ~BootTruthy(boot_node)
    THEN <<>>
    ELSE LET it == BootIter(boot_node)
             joined == Join(",", [j \in DOMAIN it |-> addr_with_pk(it[j])])
         IN  IF joined = <<>> THEN <<>> ELSE <<"--boot-nodes", joined>>

\* ---- the arguments the function is tried on ----
BootHandles == {LocalNode(i, <<"test", i>>) : i \in 0..MaxBootNodes}
BootSequences == UNION {[1..n -> BootHandles] : n \in 0..MaxBootNodes}
BootNodeArgs ==
    {BootNone} \cup {BootHandle(h) : h \in BootHandles}
               \cup {BootList(s) : s \in BootSequences}
               \cup {BootGenerator(s) : s \in BootSequences}

BootArgInit == baCall = [op |-> "none"]
BootArgIdle == baCall = [op |-> "idle"]

\* A call of make_boot_nodes_arg(boot_node)
MakeBootNodesArg(boot_node) ==
    /\ baCall' = [op |-> "make_boot_nodes_arg", arg |-> boot_node,
                  out |-> boot_nodes_arg(boot_node)]
    /\ UNCHANGED baFrame

BootArgNext == \E boot_node \in BootNodeArgs : MakeBootNodesArg(boot_node)

\* The entry <pubkey-hash>@<host>:<port> of a local handle
BootEntry(h) == [pk_hash |-> <<"hash", h.node_dir>>, host |-> "127.0.0.1", port |-> h.port]

\* C23: make_boot_nodes_arg returns the empty tuple for None and for an empty
\* iterable; for one handle it returns ('--boot-nodes', entry), the entry of
\* that handle; for an iterable of N >= 1 handles it returns '--boot-nodes'
\* and one value, the N entries in input order with a comma between each two.
C23_BootNodesArg ==
    baCall.op = "make_boot_nodes_arg" =>
      LET arg == baCall.arg
          out == baCall.out
      IN  /\ arg.tag = "None" => out = <<>>
          /\ arg.tag = "node" =>
                /\ Len(out) = 2
                /\ out[1] = "--boot-nodes"
                /\ out[2] = <<BootEntry(arg.node)>>
          /\ (arg.tag \in {"list", "generator"} /\ arg.items = <<>>) => out = <<>>
          /\ (arg.tag \in {"list", "generator"} /\ arg.items # <<>>) =>
                /\ Len(out) = 2
                /\ out[1] = "--boot-nodes"
                /\ Len(out[2]) = 2 * Len(arg.items) - 1
                /\ \A j \in 1..Len(arg.items) : out[2][2 * j - 1] = BootEntry(arg.items[j])
                /\ \A j \in 1..(Len(arg.items) - 1) : out[2][2 * j] = ","

\* A list of three handles that is not in ordinal order
C23_Witness ==
    /\ baCall.op = "make_boot_nodes_arg"
    /\ baCall.arg.tag = "list"
    /\ Len(baCall.arg.items) = 3
    /\ baCall.arg.items[1].ordinal > baCall.arg.items[2].ordinal
    /\ baCall.arg.items[2].ordinal # baCall.arg.items[3].ordinal
    /\ Len(baCall.out) = 2

\* ---------------------------------------------------------------------------
\* Query operations of a node handle (SpecQuery).
\*
\* One query is one HTTP request to the node's RPC port.  The request either
\* never gets an HTTP response (Unreachable) or it gets a response with a
\* status and a content; the content is either not JSON at all or the text of
\* a JSON-RPC document that carries `result` or `error`.  The outcome of an
\* operation is what the caller sees: the value returned, or the exception.
\* ---------------------------------------------------------------------------

Unreachable == [kind |-> "unreachable"]
Response(status, content) == [kind |-> "response", status |-> status, content |-> content]

NotJson == [json |-> FALSE]
JsonText(doc) == [json |-> TRUE, doc |-> doc]

Returned(value) == [raised |-> "none", value |-> value]
Raised(exception) == [raised |-> exception, value |-> Null]

\* r.raise_for_status(): the statuses the model sends are 200, 404 and 503
HttpStatuses == {200, 404, 503}
StatusOk(status) == status \in 200..299

\* json.loads(r.content)
json_loads(content) ==
    IF content.json THEN Returned(content.doc) ELSE Raised("JSONDecodeError")

\* BaseNode.json_rpc: post, raise_for_status, json.loads
json_rpc(server) ==
    IF server.kind = "unreachable" THEN Raised("TransportError")
    ELSE IF ~StatusOk(server.status) THEN Raised("BadStatusCode")
    ELSE json_loads(server.content)

get_validators(server) == json_rpc(server)

get_accountNoAssert(server, do_assert) == json_rpc(server)

\* BaseNode.get_account: do_assert (the default) asserts 'error' not in res
get_account(server, do_assert) ==
    LET res == json_rpc(server)
    IN  IF res.raised # "none" THEN res
        ELSE IF do_assert /\ "error" \in DOMAIN res.value
             THEN Raised("AssertionError")
             ELSE res

get_access_key_list(server) == json_rpc(server)

get_block(server) == json_rpc(server)

\* the first access key of `keys` whose public_key is pk, None without one
RECURSIVE NonceOf(_, _)
NonceOf(keys, pk) ==
    IF keys = <<>> THEN Null
    ELSE IF Head(keys).public_key = pk THEN Scalar(Head(keys).access_key.nonce)
    ELSE NonceOf(Tail(keys), pk)

\* BaseNode.get_nonce_for_pk: get_access_key_list(...)['result']['keys']
get_nonce_for_pk(server, pk) ==
    LET res == get_access_key_list(server)
    IN  IF res.raised # "none" THEN res
        ELSE IF "result" \notin DOMAIN res.value THEN Raised("KeyError")
        ELSE IF "keys" \notin DOMAIN res.value.result THEN Raised("KeyError")
        ELSE Returned(NonceOf(res.value.result.keys, pk))

\* BaseNode.get_epoch_id: at most one of height and hash, then
\* get_block...(...)['result']['header']['epoch_id']
get_epoch_id(server, block_height, block_hash) ==
    IF ~(block_height = Null \/ block_hash = Null) THEN Raised("AssertionError")
    ELSE LET res == get_block(server)
         IN  IF res.raised # "none" THEN res
             ELSE IF "result" \notin DOMAIN res.value THEN Raised("KeyError")
             ELSE IF "header" \notin DOMAIN res.value.result THEN Raised("KeyError")
             ELSE Returned(Scalar(res.value.result.header.epoch_id))

\* the documents a node answers with
QKeyEntry(pk, nonce) == [public_key |-> pk, access_key |-> [nonce |-> nonce]]
QResultDocs ==
    { [result |-> [keys |-> <<>>]],
      [result |-> [keys |-> <<QKeyEntry(1, 7)>>]],
      [result |-> [keys |-> <<QKeyEntry(2, 5), QKeyEntry(1, 7)>>]],
      [result |-> [header |-> [epoch_id |-> 3]]] }
QErrorDocs ==
    { [error |-> [code |-> c, data |-> d]] : c \in {1, 2}, d \in {0, 1} }
QContents == {NotJson} \cup {JsonText(doc) : doc \in QResultDocs \cup QErrorDocs}
QServers == {Unreachable} \cup
            {Response(status, content) : status \in HttpStatuses, content \in QContents}
QPublicKeys == {1, 2}
QBlockArgs == {Null, Scalar(4)}

QueryInit == qCall = [op |-> "none"]
QueryIdle == qCall = [op |-> "idle"]

JsonRpc(server) ==
    /\ qCall' = [op |-> "json_rpc", server |-> server, out |-> json_rpc(server)]
    /\ UNCHANGED qFrame

GetValidators(server) ==
    /\ qCall' = [op |-> "get_validators", server |-> server,
                 out |-> get_validators(server)]
    /\ UNCHANGED qFrame

GetAccount(server, do_assert) ==
    /\ qCall' = [op |-> "get_account", server |-> server, do_assert |-> do_assert,
                 out |-> get_account(server, do_assert)]
    /\ UNCHANGED qFrame

GetAccessKeyList(server) ==
    /\ qCall' = [op |-> "get_access_key_list", server |-> server,
                 out |-> get_access_key_list(server)]
    /\ UNCHANGED qFrame

GetNonceForPk(server, pk) ==
    /\ qCall' = [op |-> "get_nonce_for_pk", server |-> server, pk |-> pk,
                 out |-> get_nonce_for_pk(server, pk)]
    /\ UNCHANGED qFrame

GetBlock(server) ==
    /\ qCall' = [op |-> "get_block", server |-> server, out |-> get_block(server)]
    /\ UNCHANGED qFrame

GetEpochId(server, block_height, block_hash) ==
    /\ qCall' = [op |-> "get_epoch_id", server |-> server,
                 block_height |-> block_height, block_hash |-> block_hash,
                 out |-> get_epoch_id(server, block_height, block_hash)]
    /\ UNCHANGED qFrame

QueryNext ==
    \E server \in QServers :
        \/ JsonRpc(server)
        \/ GetValidators(server)
        \/ \E do_assert \in BOOLEAN : GetAccount(server, do_assert)
        \/ GetAccessKeyList(server)
        \/ \E pk \in QPublicKeys : GetNonceForPk(server, pk)
        \/ GetBlock(server)
        \/ \E h \in QBlockArgs, b \in QBlockArgs : GetEpochId(server, h, b)

\* ---- claims about the query operations ----

QCalled == qCall.op \notin {"none", "idle"}
QAnswered == QCalled /\ qCall.server.kind = "response" /\ StatusOk(qCall.server.status)
QErrorReply ==
    /\ QAnswered
    /\ qCall.server.content.json
    /\ "error" \in DOMAIN qCall.server.content.doc
QReplyDoc == qCall.server.content.doc
QPassThrough == {"json_rpc", "get_validators", "get_access_key_list", "get_block"}
QRequestSent ==
    QCalled /\ (qCall.op = "get_epoch_id" =>
                    (qCall.block_height = Null \/ qCall.block_hash = Null))

\* C30 as the specification words it: whatever the operation, a reply that
\* carries `error` comes back as data and nothing is raised.
C30_AsClaimed ==
    QErrorReply /\ QRequestSent => qCall.out = Returned(QReplyDoc)

\* C30: json_rpc and the operations that return its response unchanged hand a
\* reply that carries `error` back as data, and raise exactly when the node is
\* unreachable, the status is not 2xx or the content is not JSON.  get_account
\* raises AssertionError on such a reply unless do_assert is false, and the
\* operations that read `result` out of the reply raise KeyError on it.
C30_ErrorRepliesAsData ==
    /\ (QErrorReply /\ qCall.op \in QPassThrough) => qCall.out = Returned(QReplyDoc)
    /\ (QCalled /\ qCall.op \in QPassThrough) =>
          /\ qCall.server.kind = "unreachable" <=> qCall.out.raised = "TransportError"
          /\ (qCall.server.kind = "response" /\ ~StatusOk(qCall.server.status))
                <=> qCall.out.raised = "BadStatusCode"
          /\ (QAnswered /\ ~qCall.server.content.json)
                <=> qCall.out.raised = "JSONDecodeError"
          /\ qCall.out.raised \in {"none", "TransportError", "BadStatusCode",
                                   "JSONDecodeError"}
    /\ (QErrorReply /\ qCall.op = "get_account") =>
          IF qCall.do_assert THEN qCall.out = Raised("AssertionError")
                             ELSE qCall.out = Returned(QReplyDoc)
    /\ (QErrorReply /\ QRequestSent /\ qCall.op \in {"get_nonce_for_pk", "get_epoch_id"})
          => qCall.out = Raised("KeyError")

C30_Witness ==
    /\ QErrorReply
    /\ qCall.op = "get_account"
    /\ ~qCall.do_assert
    /\ qCall.out = Returned(QReplyDoc)
    /\ QReplyDoc.error.code = 2

(***************************************************************************)
(* start_cluster with a message handler: the nodes are started with         *)
(* skip_starting_proxy, their proxies once the threads are joined; then the *)
(* caller may kill and restart the nodes it was given (SpecProxy)           *)
(***************************************************************************)
MaxProxyNodes == 3
MaxRestarts == 2

PxOrdinals == 0..(pxDirs - 1)
PxAllOrdinals == 0..(MaxProxyNodes - 1)
PxDir(i) == <<"test", i>>

\* sorted(ret) on (i, node) pairs with distinct i, as the ordinals
PxSorted(seq) ==
    [j \in 1..Len(seq) |->
        CHOOSE p \in Range(seq) : Cardinality({q \in Range(seq) : q < p}) = j - 1]

\* Variant: start goes on to run_cmd whatever the previous proxy says
ProxyInAnyState(h) == TRUE

\* The loop at cluster.py:619-622 is left, or not entered: there was no proxy
\* before, or the one before has set its value to 2
PreviousProxyClosed(h) == h.proxy_local_stopped \in {"None", "2"}

ProxyRuns(h) == h.proxy_local_stopped = "0"
ProxyStarted(h) == h.proxy_local_stopped # "None"

PxEvent(e, i) == [e |-> e, i |-> i]

ProxyInit ==
    /\ pxHandler \in BOOLEAN
    /\ pxDirs \in 1..MaxProxyNodes
    /\ pxMain = "boot"
    /\ pxSpawnIdx = 1
    /\ pxJoinIdx = 1
    /\ pxProxyIdx = 0
    /\ pxT = [i \in PxAllOrdinals |-> IF i = 0 THEN "init" ELSE "unborn"]
    /\ pxH = [i \in PxAllOrdinals |-> LocalNodeState(PxDir(i))]
    /\ pxRet = <<>>
    /\ pxLog = <<>>
    /\ pxRestarts = 0

ProxyIdle ==
    /\ pxHandler = FALSE
    /\ pxDirs = 0
    /\ pxMain = "idle"
    /\ pxSpawnIdx = 1
    /\ pxJoinIdx = 1
    /\ pxProxyIdx = 0
    /\ pxT = [i \in PxAllOrdinals |-> "unborn"]
    /\ pxH = [i \in PxAllOrdinals |-> LocalNodeState(PxDir(i))]
    /\ pxRet = <<>>
    /\ pxLog = <<>>
    /\ pxRestarts = 0

\* spin_up_node up to node.start: the handle, and proxy.proxify_node(node)
\* when start_cluster made a proxy
PxConstruct(i) ==
    /\ pxT[i] = "init"
    /\ pxH' = [pxH EXCEPT ![i] = IF pxHandler THEN proxify_node(LocalNodeState(PxDir(i)))
                                               ELSE LocalNodeState(PxDir(i))]
    /\ pxT' = [pxT EXCEPT ![i] = "start"]
    /\ UNCHANGED <<pxHandler, pxDirs, pxMain, pxSpawnIdx, pxJoinIdx, pxProxyIdx, pxRet,
                   pxLog, pxRestarts>>
    /\ UNCHANGED pxFrame

\* node.start(boot_node=.., skip_starting_proxy=True) up to the end of run_cmd;
\* what Popen raises leaves spin_up_node_and_push
PxRunCmd(i, spawned) ==
    /\ pxT[i] = "start"
    /\ PreviousProxyClosed(pxH[i])
    /\ IF spawned
       THEN /\ pxH' = [pxH EXCEPT ![i] = run_cmd(@, "graceful")]
            /\ pxLog' = Append(pxLog, PxEvent("spawn", i))
            /\ pxT' = [pxT EXCEPT ![i] = "wait"]
            /\ UNCHANGED pxMain
       ELSE /\ pxT' = [pxT EXCEPT ![i] = "raised"]
            /\ pxMain' = IF i = 0 THEN "raised" ELSE pxMain
            /\ UNCHANGED <<pxH, pxLog>>
    /\ UNCHANGED <<pxHandler, pxDirs, pxSpawnIdx, pxJoinIdx, pxProxyIdx, pxRet, pxRestarts>>
    /\ UNCHANGED pxFrame

\* wait_for_rpc(10) has returned or its failure was logged, start returns,
\* spin_up_node sleeps and returns, ret.append((i, node))
PxStartReturns(i) ==
    /\ pxT[i] = "wait"
    /\ pxRet' = Append(pxRet, i)
    /\ pxT' = [pxT EXCEPT ![i] = "done"]
    /\ pxMain' = IF i = 0 THEN "fanout" ELSE pxMain
    /\ UNCHANGED <<pxHandler, pxDirs, pxSpawnIdx, pxJoinIdx, pxProxyIdx, pxH, pxLog,
                   pxRestarts>>
    /\ UNCHANGED pxFrame

\* One iteration of the loop at cluster.py:1195
PxSpawnThread ==
    /\ pxMain = "fanout"
    /\ pxSpawnIdx < pxDirs
    /\ pxT' = [pxT EXCEPT ![pxSpawnIdx] = "init"]
    /\ pxSpawnIdx' = pxSpawnIdx + 1
    /\ UNCHANGED <<pxHandler, pxDirs, pxMain, pxJoinIdx, pxProxyIdx, pxH, pxRet, pxLog,
                   pxRestarts>>
    /\ UNCHANGED pxFrame

\* One iteration of the loop at cluster.py:1201
PxJoinThread ==
    /\ pxMain = "fanout"
    /\ pxSpawnIdx = pxDirs
    /\ pxJoinIdx < pxDirs
    /\ pxT[pxJoinIdx] \in {"done", "raised"}
    /\ pxJoinIdx' = pxJoinIdx + 1
    /\ UNCHANGED <<pxHandler, pxDirs, pxMain, pxSpawnIdx, pxProxyIdx, pxT, pxH, pxRet,
                   pxLog, pxRestarts>>
    /\ UNCHANGED pxFrame

\* Both loops of the fan-out have ended
PxAllJoined == pxMain = "fanout" /\ pxSpawnIdx = pxDirs /\ pxJoinIdx = pxDirs

\* One iteration of the loop at cluster.py:1205 over sorted(ret)
PxStartProxy ==
    /\ PxAllJoined
    /\ pxProxyIdx < Len(pxRet)
    /\ LET i == PxSorted(pxRet)[pxProxyIdx + 1]
           h == start_proxy_if_needed(pxH[i])
       IN  /\ pxH' = [pxH EXCEPT ![i] = h]
           /\ pxLog' = IF ProxyRuns(h) THEN Append(pxLog, PxEvent("proxy", i)) ELSE pxLog
    /\ pxProxyIdx' = pxProxyIdx + 1
    /\ UNCHANGED <<pxHandler, pxDirs, pxMain, pxSpawnIdx, pxJoinIdx, pxT, pxRet, pxRestarts>>
    /\ UNCHANGED pxFrame

\* return nodes
PxReturn ==
    /\ PxAllJoined
    /\ pxProxyIdx = Len(pxRet)
    /\ pxMain' = "done"
    /\ UNCHANGED <<pxHandler, pxDirs, pxSpawnIdx, pxJoinIdx, pxProxyIdx, pxT, pxH, pxRet,
                   pxLog, pxRestarts>>
    /\ UNCHANGED pxFrame

\* node.kill() by the caller of start_cluster
PxKill(i) ==
    /\ pxMain = "done"
    /\ i \in Range(pxRet)
    /\ pxH' = [pxH EXCEPT ![i] = kill(@, FALSE).h]
    /\ UNCHANGED <<pxHandler, pxDirs, pxMain, pxSpawnIdx, pxJoinIdx, pxProxyIdx, pxT, pxRet,
                   pxLog, pxRestarts>>
    /\ UNCHANGED pxFrame

\* The proxy of node i that was told to stop has closed
PxProxyCloses(i) ==
    /\ pxH[i].proxy_local_stopped = "1"
    /\ pxH' = [pxH EXCEPT ![i].proxy_local_stopped = "2"]
    /\ UNCHANGED <<pxHandler, pxDirs, pxMain, pxSpawnIdx, pxJoinIdx, pxProxyIdx, pxT, pxRet,
                   pxLog, pxRestarts>>
    /\ UNCHANGED pxFrame

\* node.start(boot_node=..) by the caller of start_cluster, skip_starting_proxy
\* left at False: the wait for the previous proxy, run_cmd, the new proxy
PxRestart(i) ==
    /\ pxMain = "done"
    /\ i \in Range(pxRet)
    /\ pxRestarts < MaxRestarts
    /\ Alive(pxH[i]) => pxH[i].orphans < MaxOrphans
    /\ PreviousProxyClosed(pxH[i])
    /\ LET h == start_proxy_if_needed(run_cmd(pxH[i], "graceful"))
       IN  /\ pxH' = [pxH EXCEPT ![i] = h]
           /\ pxLog' = pxLog \o <<PxEvent("spawn", i)>> \o
                           (IF ProxyRuns(h) THEN <<PxEvent("proxy", i)>> ELSE <<>>)
    /\ pxRestarts' = pxRestarts + 1
    /\ UNCHANGED <<pxHandler, pxDirs, pxMain, pxSpawnIdx, pxJoinIdx, pxProxyIdx, pxT, pxRet>>
    /\ UNCHANGED pxFrame

ProxyNext ==
    \/ \E i \in PxOrdinals : PxConstruct(i)
    \/ \E i \in PxOrdinals, spawned \in BOOLEAN : PxRunCmd(i, spawned)
    \/ \E i \in PxOrdinals : PxStartReturns(i)
    \/ PxSpawnThread
    \/ PxJoinThread
    \/ PxStartProxy
    \/ PxReturn
    \/ \E i \in PxOrdinals : PxKill(i)
    \/ \E i \in PxOrdinals : PxProxyCloses(i)
    \/ \E i \in PxOrdinals : PxRestart(i)

\* ---- claims about the proxies ----
\* The step spawns a process of node i
PxSpawns(i) ==
    /\ Len(pxLog') > Len(pxLog)
    /\ pxLog'[Len(pxLog) + 1] = PxEvent("spawn", i)

\* C35: with a message handler, a proxy runs only when every run of
\* spin_up_node_and_push has ended and every thread is joined; the loop of
\* start_cluster starts the proxies in ordinal order, each one after those of
\* all lower ordinals it was given and before those of all higher ones; and no
\* step spawns a process of a node whose previous proxy was told to stop, or
\* still runs, and has not set its value to 2.
C35_ProxiesAfterJoinInOrder ==
    /\ [](\A i \in PxOrdinals :
             ProxyStarted(pxH[i]) =>
                 /\ pxHandler
                 /\ \A j \in PxOrdinals : pxT[j] \in {"done", "raised"}
                 /\ pxSpawnIdx = pxDirs
                 /\ pxJoinIdx = pxDirs)
    /\ [][\A i \in PxOrdinals :
             (pxMain # "done" /\ ~ProxyStarted(pxH[i]) /\ ProxyStarted(pxH'[i])) =>
                 \A j \in Range(pxRet) :
                     /\ (j < i) => ProxyStarted(pxH[j])
                     /\ (j > i) => ~ProxyStarted(pxH[j])]_vars
    /\ [](pxMain = "done" /\ pxHandler =>
             \A i \in Range(pxRet) : ProxyStarted(pxH[i]))
    /\ [][\A i \in PxOrdinals :
             PxSpawns(i) => pxH[i].proxy_local_stopped \in {"None", "2"}]_vars

\* Three nodes whose threads ended out of ordinal order; start_cluster has
\* returned, and node 1 was killed and started again once its proxy had closed
C35_Witness ==
    /\ pxHandler
    /\ pxMain = "done"
    /\ pxRet = <<0, 2, 1>>
    /\ pxRestarts = 1
    /\ Len(pxLog) = 8
    /\ SubSeq(pxLog, 4, 8) = <<PxEvent("proxy", 0), PxEvent("proxy", 1), PxEvent("proxy", 2),
                               PxEvent("spawn", 1), PxEvent("proxy", 1)>>
    /\ ProxyRuns(pxH[1])
    /\ pxH[1].orphans = 0

(***************************************************************************)
(* load_config and the module-level DEFAULT_CONFIG (SpecLoadConfig)         *)
(***************************************************************************)
\* The dict literal at cluster.py:1220-1225
DEFAULT_CONFIG ==
    [local |-> "True", near_root |-> "default_root", binary_name |-> "neard",
     release |-> "False"]

\* What the environment variable can be: not set, set to the empty string, the
\* name of a file that is not there, of a file that is not JSON, or of a file
\* that holds a JSON object
LcUnset == [kind |-> "unset"]
LcEmpty == [kind |-> "empty"]
LcMissing == [kind |-> "missing"]
LcNotJson == [kind |-> "not_json"]
LcFile(doc) == [kind |-> "file", doc |-> doc]

\* The objects a config file holds: for each key, no value or another value
LcValues ==
    [local |-> "False", near_root |-> "/opt/near", release |-> "True", remote |-> "zones"]
LcDocs == { [k \in keys |-> LcValues[k]] : keys \in SUBSET DOMAIN LcValues }
LcEnvs == {LcUnset, LcEmpty, LcMissing, LcNotJson} \cup {LcFile(doc) : doc \in LcDocs}

\* os.environ.get(CONFIG_ENV_VAR, '') is false
NoConfigFile(env) == env.kind \in {"unset", "empty"}

\* load_config on the dict DEFAULT_CONFIG is bound to: config is another name
\* of that dict, so config.update changes it
load_config(default, env) ==
    IF NoConfigFile(env) \/ env.kind = "missing"
    THEN [default |-> default, returned |-> default, err |-> "none"]
    ELSE IF env.kind = "not_json"
    THEN [default |-> default, returned |-> default, err |-> "JSONDecodeError"]
    ELSE LET merged == DictUpdate(default, env.doc)
         IN  [default |-> merged, returned |-> merged, err |-> "none"]

LoadConfigInit ==
    /\ lcDefault = DEFAULT_CONFIG
    /\ lcLast = [op |-> "none"]

LoadConfigIdle ==
    /\ lcDefault = DEFAULT_CONFIG
    /\ lcLast = [op |-> "idle"]

LoadConfig(env) ==
    /\ LET r == load_config(lcDefault, env)
       IN  /\ lcDefault' = r.default
           /\ lcLast' = [op |-> "load_config", env |-> env, before |-> lcDefault,
                         returned |-> r.returned, err |-> r.err]
    /\ UNCHANGED lcFrame

LoadConfigNext == \E env \in LcEnvs : LoadConfig(env)

\* C37: the dict the hardcoded defaults live in is never changed, and a call
\* with no config file returns exactly the hardcoded defaults, whatever the
\* calls before it loaded.
C37_AsClaimed ==
    /\ lcDefault = DEFAULT_CONFIG
    /\ (lcLast.op = "load_config" /\ NoConfigFile(lcLast.env) /\ lcLast.err = "none") =>
           lcLast.returned = DEFAULT_CONFIG

\* What does hold: a call returns what DEFAULT_CONFIG held when it began, with
\* the object of the file laid over it
C37_OverlayOfCurrentDefault ==
    (lcLast.op = "load_config" /\ lcLast.err = "none") =>
        /\ lcLast.returned = lcDefault
        /\ lcLast.returned =
               IF lcLast.env.kind = "file" THEN DictUpdate(lcLast.before, lcLast.env.doc)
                                           ELSE lcLast.before

(***************************************************************************)
(* The status query on a LocalNode, a GCloudNode and an RpcNode (SpecStatus)*)
(***************************************************************************)
\* RpcNode.__init__: BaseNode.__init__, host and rpc_port.  The class has
\* rpc_addr and neither addr nor kill.
RpcNodeState == [is_check_store |-> TRUE, store_tests |-> 0]

\* BaseNode.check_store on an RpcNode: on result 0 the message of logger.error
\* is formatted with self.addr(), which the class does not have; the except
\* clause is for BadStatusCode alone
check_store_rpc(h, rpc) ==
    IF ~h.is_check_store
    THEN [h |-> h, checks |-> 0, events |-> <<>>, err |-> "none"]
    ELSE IF rpc.kind = "BadStatusCode" \/ rpc.kind = "no_result"
    THEN [h |-> h, checks |-> 1, events |-> <<>>, err |-> "none"]
    ELSE IF rpc.kind = "ConnectionError"
    THEN [h |-> h, checks |-> 1, events |-> <<>>, err |-> "ConnectionError"]
    ELSE IF rpc.n = 0
    THEN [h |-> h, checks |-> 1, events |-> <<>>, err |-> "AttributeError"]
    ELSE [h |-> [h EXCEPT !.store_tests = @ + rpc.n], checks |-> 1,
          events |-> <<>>, err |-> "none"]

\* BaseNode.get_status on an RpcNode
get_status_rpc(h, check_storage, http, syncing, rpc) ==
    IF http # "ok"
    THEN [h |-> h, checks |-> 0, events |-> <<>>, err |-> "HTTPError"]
    ELSE IF check_storage /\ syncing = FALSE
    THEN check_store_rpc(h, rpc)
    ELSE [h |-> h, checks |-> 0, events |-> <<>>, err |-> "none"]

\* GCloudNode.get_status: the lambda given to nretry returns the bound method
\* get_status_impl without calling it, nretry returns that method, and
\* r.raise_for_status() is looked up on it
get_status_gcloud(g) ==
    [h |-> g, checks |-> 0, events |-> <<>>, err |-> "AttributeError"]

StKinds == {"LocalNode", "GCloudNode", "RpcNode"}

StHandle(kind) ==
    IF kind = "LocalNode" THEN LocalNodeState(NodeDir)
    ELSE IF kind = "RpcNode" THEN RpcNodeState
    ELSE GCloudNodeState("none")

StatusInit ==
    /\ stKind \in StKinds
    /\ stH = StHandle(stKind)
    /\ stLast = [op |-> "none"]

StatusIdle ==
    /\ stKind = "idle"
    /\ stH = RpcNodeState
    /\ stLast = [op |-> "idle"]

\* The node behind an RpcNode runs whatever the handle does
StHttpOutcomes == IF stKind = "LocalNode" THEN HttpOutcomes(stH) ELSE {"ok", "fail"}

\* A call that sends the check RPC is given a reply; one that does not is
\* given the empty one
StValidInput(check_storage, http, syncing, rpc) ==
    /\ http \in StHttpOutcomes
    /\ (http = "fail") => (syncing = FALSE)
    /\ IF stKind # "GCloudNode" /\ http = "ok" /\ check_storage /\ ~syncing
          /\ stH.is_check_store
       THEN stH.store_tests + rpc.n <= MaxStoreTests
       ELSE rpc = NoReply

\* node.start() on the local handle, as far as run_cmd
StStart(temper) ==
    /\ stKind = "LocalNode"
    /\ ~Alive(stH)
    /\ stH' = run_cmd(stH, temper)
    /\ stLast' = [op |-> "start"]
    /\ UNCHANGED stKind
    /\ UNCHANGED stFrame

\* stop_checking_store on the local handle; its log line is formatted with
\* self.addr(), so on an RpcNode it raises before the flag is cleared
StStopCheckingStore ==
    /\ stKind = "LocalNode"
    /\ stH' = [stH EXCEPT !.is_check_store = FALSE]
    /\ stLast' = [op |-> "stop_checking_store"]
    /\ UNCHANGED stKind
    /\ UNCHANGED stFrame

\* node.get_status(check_storage=..) on the handle, whatever its class
StGetStatus(check_storage, http, syncing, rpc) ==
    /\ stKind \in StKinds
    /\ StValidInput(check_storage, http, syncing, rpc)
    /\ LET st == IF stKind = "LocalNode"
                 THEN get_status(stH, check_storage, http, syncing, rpc)
                 ELSE IF stKind = "RpcNode"
                 THEN get_status_rpc(stH, check_storage, http, syncing, rpc)
                 ELSE get_status_gcloud(stH)
       IN  /\ stH' = st.h
           /\ stLast' = [op |-> "get_status", check_storage |-> check_storage,
                         http |-> http, syncing |-> syncing, rpc |-> rpc,
                         checks |-> st.checks, events |-> st.events, err |-> st.err]
    /\ UNCHANGED stKind
    /\ UNCHANGED stFrame

StatusNext ==
    \/ \E temper \in Tempers : StStart(temper)
    \/ StStopCheckingStore
    \/ \E check_storage \in BOOLEAN, http \in {"ok", "fail"}, syncing \in BOOLEAN,
          rpc \in RpcReplies : StGetStatus(check_storage, http, syncing, rpc)

\* The latest call was a status query whose check RPC gave result 0
StInconsistent ==
    /\ stLast.op = "get_status"
    /\ stLast.checks = 1
    /\ stLast.rpc = [kind |-> "result", n |-> 0]

\* C38: on a handle of any class, a status query whose store check reports
\* inconsistency returns without raising; where the handle owns a process, that
\* process is stopped.
C38_AsClaimed ==
    StInconsistent =>
        /\ stLast.err = "none"
        /\ (stKind = "LocalNode") => ~Alive(stH)

\* What does hold: on a LocalNode the query returns and the child is stopped
\* unless the child is not reaped after SIGKILL; on an RpcNode the query raises
\* AttributeError; on a GCloudNode every status query raises AttributeError
\* before any check is sent.
C38_ByClass ==
    /\ (StInconsistent /\ stKind = "LocalNode") =>
          \/ stLast.err = "none" /\ ~Alive(stH)
          \/ stLast.err = "TimeoutExpired" /\ stH.temper = "unreapable"
    /\ (StInconsistent /\ stKind = "RpcNode") => stLast.err = "AttributeError"
    /\ (stLast.op = "get_status" /\ stKind = "GCloudNode") =>
          stLast.err = "AttributeError" /\ stLast.checks = 0

(***************************************************************************)
(* spin_up_node on a local configuration: the ports of the handle and the   *)
(* blacklist it is given (SpecSpinUp)                                       *)
(***************************************************************************)
MaxSpinNodes == 3

SuOrdinals == 0..(MaxSpinNodes - 1)

\* '%s' % n for a number that is not negative: its decimal digits
RECURSIVE Decimal(_)
Decimal(n) == IF n < 10 THEN <<n>> ELSE Append(Decimal(n \div 10), n % 10)

\* The number a string of decimal digits is read as
RECURSIVE FromDecimal(_)
FromDecimal(digits) ==
    IF Len(digits) = 1 THEN digits[1]
    ELSE 10 * FromDecimal(SubSeq(digits, 1, Len(digits) - 1)) + digits[Len(digits)]

\* '<host>:<port>', kept as its two ':'-separated fields
HostPort(host, port) == [host |-> host, port |-> Decimal(port)]

\* The (host, port) pair an entry '<host>:<port>' is read as
ParseHostPort(entry) == <<entry.host, FromDecimal(entry.port)>>

\* Variant: the entry is built from the base port and the ordinal alone
BlacklistEntryWithoutOffset(bl_ordinal) == HostPort("127.0.0.1", P2pBasePort + bl_ordinal)

\* "127.0.0.1:%s" % (24567 + 10 + bl_ordinal)
BlacklistEntry(bl_ordinal) == HostPort("127.0.0.1", P2pBasePort + PortOffset + bl_ordinal)

\* LocalNode.addr and LocalNode.rpc_addr
LocalAddr(h) == <<"127.0.0.1", h.port>>
LocalRpcAddr(h) == <<"127.0.0.1", h.rpc_port>>

\* spin_up_node with config['local'] true: the blacklist entries, the handle,
\* and what LocalNode.__init__ writes under network and rpc of config.json.
\* The blacklist is kept as the set of its entries.
spin_up_node(ordinal, blacklist) ==
    LET entries == {BlacklistEntry(bl_ordinal) : bl_ordinal \in blacklist}
        h == LocalNode(ordinal, PxDir(ordinal))
    IN  [port |-> h.port, rpc_port |-> h.rpc_port, ordinal |-> ordinal,
         blacklist_ordinals |-> blacklist,
         network |-> [addr |-> HostPort("0.0.0.0", h.port), blacklist |-> entries],
         rpc |-> [addr |-> HostPort("0.0.0.0", h.rpc_port)]]

SpinUpInit == suNodes = [i \in {} |-> 0]

SpinUpIdle == suNodes = <<>>

\* spin_up_node(config, near_root, node_dir, ordinal, blacklist=..) for an
\* ordinal that has no node yet
SpinUpNode(ordinal, blacklist) ==
    /\ ordinal \notin DOMAIN suNodes
    /\ suNodes' = [i \in DOMAIN suNodes \cup {ordinal} |->
                      IF i = ordinal THEN spin_up_node(ordinal, blacklist) ELSE suNodes[i]]
    /\ UNCHANGED suFrame

SpinUpNext ==
    \E ordinal \in SuOrdinals, blacklist \in SUBSET SuOrdinals : SpinUpNode(ordinal, blacklist)

\* C39: the nodes of distinct ordinals have distinct p2p ports and distinct
\* RPC ports, no p2p port is the RPC port of any node, the entry of a
\* blacklist for ordinal j reads as the p2p address of node j and of no other
\* node, and the address written to config.json carries the port of the handle.
C39_PortsAndBlacklist ==
    /\ \A i, j \in DOMAIN suNodes :
          /\ (i # j) => suNodes[i].port # suNodes[j].port
          /\ (i # j) => suNodes[i].rpc_port # suNodes[j].rpc_port
          /\ suNodes[i].port # suNodes[j].rpc_port
    /\ \A i \in DOMAIN suNodes :
          /\ Cardinality(suNodes[i].network.blacklist) =
                 Cardinality(suNodes[i].blacklist_ordinals)
          /\ \A j \in suNodes[i].blacklist_ordinals :
                /\ BlacklistEntry(j) \in suNodes[i].network.blacklist
                /\ \A k \in DOMAIN suNodes :
                      (ParseHostPort(BlacklistEntry(j)) = LocalAddr(suNodes[k])) <=> (k = j)
          /\ \A entry \in suNodes[i].network.blacklist :
                \E j \in suNodes[i].blacklist_ordinals :
                    ParseHostPort(entry) = <<"127.0.0.1", P2pBasePort + PortOffset + j>>
          /\ ParseHostPort(suNodes[i].network.addr)[2] = suNodes[i].port
          /\ ParseHostPort(suNodes[i].rpc.addr)[2] = suNodes[i].rpc_port

\* Three nodes are up, the last of them with the other two on its blacklist
C39_Witness ==
    /\ DOMAIN suNodes = 0..2
    /\ suNodes[2].blacklist_ordinals = {0, 1}
    /\ suNodes[0].blacklist_ordinals = {}
    /\ ParseHostPort(BlacklistEntry(1)) = LocalAddr(suNodes[1])
    /\ suNodes[1].port = 24578

(***************************************************************************)
(* LocalNode.run_cmd: the environment of the spawned process (SpecEnv)      *)
(***************************************************************************)
\* A string is the sequence of its pieces, so that + is \o
EnvKeys == {"RUST_BACKTRACE", "RUST_LOG", "HOME"}
EnvValues == {<<"0">>, <<"1">>}
EnvDicts == UNION {[keys -> EnvValues] : keys \in SUBSET EnvKeys}

RustLogPrefix ==
    <<"actix_web=warn,mio=warn,tokio_util=warn,actix_server=warn,actix_http=warn,">>

\* Variant: extra_env is merged before the two variables are set
SpawnEnvSetLast(environ, extra_env) ==
    LET merged == DictUpdate(environ, extra_env)
        traced == DictSet(merged, "RUST_BACKTRACE", <<"1">>)
    IN  DictSet(traced, "RUST_LOG",
                RustLogPrefix \o DictGet(traced, "RUST_LOG", <<"debug">>))

\* run_cmd: the env handed to subprocess.Popen
SpawnEnv(environ, extra_env) ==
    LET traced == DictSet(environ, "RUST_BACKTRACE", <<"1">>)
        logged == DictSet(traced, "RUST_LOG",
                          RustLogPrefix \o DictGet(traced, "RUST_LOG", <<"debug">>))
    IN  DictUpdate(logged, extra_env)

EnvInit == evInherited \in EnvDicts /\ evLast = [op |-> "none"]

EnvIdle == evInherited = <<>> /\ evLast = [op |-> "idle"]

\* run_cmd(cmd=.., extra_env=..) under the environment of the test process
EnvRunCmd(extra_env) ==
    /\ evLast' = [op |-> "run_cmd", extra_env |-> extra_env,
                  env |-> SpawnEnv(evInherited, extra_env)]
    /\ UNCHANGED <<evInherited, evFrame>>

EnvNext == \E extra_env \in EnvDicts : EnvRunCmd(extra_env)

\* C40 as stated: whatever is inherited and whatever extra_env holds, the
\* spawned process has RUST_BACKTRACE equal to 1.
C40_AsClaimed ==
    evLast.op = "run_cmd" => evLast.env["RUST_BACKTRACE"] = <<"1">>

\* C40: the spawned process has RUST_BACKTRACE equal to extra_env's value
\* when extra_env has that key and equal to 1 otherwise, whatever is
\* inherited; every other key of extra_env reaches the process as given too.
C40_OneUnlessExtraEnvSaysOtherwise ==
    evLast.op = "run_cmd" =>
        /\ "RUST_BACKTRACE" \in DOMAIN evLast.env
        /\ evLast.env["RUST_BACKTRACE"] =
               (IF "RUST_BACKTRACE" \in DOMAIN evLast.extra_env
                THEN evLast.extra_env["RUST_BACKTRACE"] ELSE <<"1">>)
        /\ \A k \in DOMAIN evLast.extra_env : evLast.env[k] = evLast.extra_env[k]

\* The test process has RUST_BACKTRACE 0, extra_env leaves it alone, and the
\* spawned process has 1
C40_Witness ==
    /\ evLast.op = "run_cmd"
    /\ "RUST_BACKTRACE" \in DOMAIN evInherited
    /\ evInherited["RUST_BACKTRACE"] = <<"0">>
    /\ "RUST_BACKTRACE" \notin DOMAIN evLast.extra_env
    /\ "HOME" \in DOMAIN evLast.extra_env
    /\ evLast.env["RUST_BACKTRACE"] = <<"1">>

(***************************************************************************)
(* Specifications                                                          *)
(***************************************************************************)
StartupIdle == ClusterIdle /\ ConfigIdle /\ GenesisIdle
HandlesIdle == NodeIdle /\ RemoteIdle /\ KeysIdle /\ TopoIdle
CoreIdle == ProvIdle /\ RetryIdle /\ BootArgIdle /\ NodeConfigIdle /\ QueryIdle
LateIdle == ProxyIdle /\ LoadConfigIdle /\ StatusIdle /\ SpinUpIdle /\ EnvIdle
UtilIdle ==
    /\ ProvIdle /\ RetryIdle /\ BootArgIdle /\ NodeConfigIdle /\ QueryIdle
    /\ LateIdle
LifecycleIdle == HandlesIdle /\ UtilIdle
InitCluster == ClusterInit /\ ConfigIdle /\ GenesisIdle /\ LifecycleIdle
InitConfig == ClusterIdle /\ ConfigInit /\ GenesisIdle /\ LifecycleIdle
InitGenesis == ClusterIdle /\ ConfigIdle /\ GenesisInit /\ LifecycleIdle
InitNode == StartupIdle /\ NodeInit /\ RemoteIdle /\ KeysIdle /\ TopoIdle /\ UtilIdle
InitRemote == StartupIdle /\ NodeIdle /\ RemoteInit /\ KeysIdle /\ TopoIdle /\ UtilIdle
InitKeys == StartupIdle /\ NodeIdle /\ RemoteIdle /\ KeysInit /\ TopoIdle /\ UtilIdle
InitTopology == StartupIdle /\ NodeIdle /\ RemoteIdle /\ KeysIdle /\ TopoInit /\ UtilIdle
InitProvision ==
    StartupIdle /\ HandlesIdle /\ ProvInit /\ RetryIdle /\ BootArgIdle /\ NodeConfigIdle
                /\ QueryIdle /\ LateIdle
InitRetry ==
    StartupIdle /\ HandlesIdle /\ ProvIdle /\ RetryInit /\ BootArgIdle /\ NodeConfigIdle
                /\ QueryIdle /\ LateIdle
InitBootArg ==
    StartupIdle /\ HandlesIdle /\ ProvIdle /\ RetryIdle /\ BootArgInit /\ NodeConfigIdle
                /\ QueryIdle /\ LateIdle
InitNodeConfig ==
    StartupIdle /\ HandlesIdle /\ ProvIdle /\ RetryIdle /\ BootArgIdle /\ NodeConfigInit
                /\ QueryIdle /\ LateIdle
InitQuery ==
    StartupIdle /\ HandlesIdle /\ ProvIdle /\ RetryIdle /\ BootArgIdle /\ NodeConfigIdle
                /\ QueryInit /\ LateIdle

InitProxy ==
    StartupIdle /\ HandlesIdle /\ ProvIdle /\ RetryIdle /\ BootArgIdle /\ NodeConfigIdle
                /\ QueryIdle /\ ProxyInit /\ LoadConfigIdle /\ StatusIdle /\ SpinUpIdle
                /\ EnvIdle
InitLoadConfig ==
    StartupIdle /\ HandlesIdle /\ CoreIdle /\ ProxyIdle /\ LoadConfigInit /\ StatusIdle
                /\ SpinUpIdle /\ EnvIdle

InitStatus ==
    StartupIdle /\ HandlesIdle /\ CoreIdle /\ ProxyIdle /\ LoadConfigIdle /\ StatusInit
                /\ SpinUpIdle /\ EnvIdle

InitSpinUp ==
    StartupIdle /\ HandlesIdle /\ CoreIdle /\ ProxyIdle /\ LoadConfigIdle /\ StatusIdle
                /\ SpinUpInit /\ EnvIdle

InitEnv ==
    StartupIdle /\ HandlesIdle /\ CoreIdle /\ ProxyIdle /\ LoadConfigIdle /\ StatusIdle
                /\ SpinUpIdle /\ EnvInit

SpecCluster == InitCluster /\ [][ClusterNext]_vars
SpecConfig == InitConfig /\ [][ConfigNext]_vars
SpecGenesis == InitGenesis /\ [][GenesisNext]_vars
SpecNode == InitNode /\ [][NodeNext]_vars
SpecRemote == InitRemote /\ [][RemoteNext]_vars
SpecKeys == InitKeys /\ [][KeysNext]_vars
SpecTopology == InitTopology /\ [][TopoNext]_vars
SpecProvision == InitProvision /\ [][ProvNext]_vars
SpecRetry == InitRetry /\ [][RetryNext]_vars /\ WF_vars(RetryNext)
SpecBootArg == InitBootArg /\ [][BootArgNext]_vars
SpecNodeConfig == InitNodeConfig /\ [][NodeConfigNext]_vars
SpecQuery == InitQuery /\ [][QueryNext]_vars
SpecProxy == InitProxy /\ [][ProxyNext]_vars
SpecLoadConfig == InitLoadConfig /\ [][LoadConfigNext]_vars
SpecStatus == InitStatus /\ [][StatusNext]_vars
SpecSpinUp == InitSpinUp /\ [][SpinUpNext]_vars
SpecEnv == InitEnv /\ [][EnvNext]_vars

====
